---- MODULE Spec2Model ----
(***************************************************************************)
(* Signature-based technology detection (utils/wappalyzer.mjs):            *)
(* pattern compiler, signal matcher, aggregation, implication closure and  *)
(* ranking of detectTechnologies, with the signal collector it awaits.     *)
(*                                                                         *)
(* Strings are TLA+ strings.  A raw signature string is kept as the list   *)
(* of its segments around the separator \; : the regex body `re` and the   *)
(* key:value segments `opts`.  The regular-expression engine is a table.   *)
(***************************************************************************)
EXTENDS Integers, Sequences, FiniteSets, TLC

\* ------------------------------------------------------------ JS values

\* JavaScript undefined and null, and the booleans a JS global can hold.
Undefined == "#undefined"
Null == "#null"
JsTrue == "#true"
JsFalse == "#false"

\* Truthiness of a value (a string, a boolean, null or undefined).
Truthy(v) == v \notin {"", Undefined, Null, JsFalse}

\* String(value) of a JS global.
JsString(v) ==
    IF v = JsTrue THEN "true" ELSE IF v = JsFalse THEN "false" ELSE v

\* String.prototype.toLowerCase on the names the model uses.
ToLower(s) ==
    CASE s = "Generator" -> "generator"
      [] s = "X-Powered-By" -> "x-powered-by"
      [] s = "X-Shopify-Stage" -> "x-shopify-stage"
      [] s = "SID" -> "sid"
      [] s = "Server" -> "server"
      [] s = "Via" -> "via"
      [] s = "Set-Cookie" -> "set-cookie"
      [] OTHER -> s

\* obj[key] of a map held as a function: undefined when the key is absent.
Lookup(m, k) == IF k \in DOMAIN m THEN m[k] ELSE Undefined

\* --------------------------------------------------------- raw patterns

\* A raw pattern "<re>\;k:v\;k:v".
Raw(re, opts) == [re |-> re, opts |-> opts]
Opt(k, v) == [k |-> k, v |-> v]
Plain(re) == Raw(re, <<>>)
WithConf(re, c) == Raw(re, <<Opt("confidence", c)>>)
WithVer(re, n) == Raw(re, <<Opt("version", n)>>)
WithVerConf(re, n, c) == Raw(re, <<Opt("version", n), Opt("confidence", c)>>)
EmptyString == Plain("")

\* pattern === '' (also !pattern for a string).
IsEmptyString(p) == p.re = "" /\ p.opts = <<>>

\* A pattern field: one string (arr = FALSE, one element) or an array of
\* strings (arr = TRUE); an absent field is NoSig.
One(p) == [arr |-> FALSE, pats |-> <<p>>]
Many(ps) == [arr |-> TRUE, pats |-> ps]
NoSig == [arr |-> FALSE, pats |-> <<>>]

\* Truthiness of a pattern field: undefined and '' are falsy, arrays truthy.
SigTruthy(sig) ==
    sig.arr \/ (sig.pats # <<>> /\ ~IsEmptyString(sig.pats[1]))

\* Array.isArray(x) ? x : [x]
ToList(sig) == sig.pats

\* ------------------------------------------------------- regex engine

\* Regex bodies new RegExp(body, 'i') rejects.
Uncompilable == {"bad("}

\* value.match(regex): the match array (whole match, then the capture
\* groups, undefined for a group that did not participate).
RegexTable ==
    { [re |-> "gen-([0-9.]+)", value |-> "gen-5.8", groups |-> <<"gen-5.8", "5.8">>],
      [re |-> "gen-([0-9.]+)", value |-> "gen-6.1", groups |-> <<"gen-6.1", "6.1">>],
      [re |-> "gen", value |-> "gen-5.8", groups |-> <<"gen">>],
      [re |-> "gen", value |-> "gen-6.1", groups |-> <<"gen">>],
      [re |-> "gen", value |-> "gen", groups |-> <<"gen">>],
      [re |-> "lib(-([0-9]+))?", value |-> "lib", groups |-> <<"lib", Undefined, Undefined>>],
      [re |-> "lib(-([0-9]+))?", value |-> "lib-3", groups |-> <<"lib-3", "-3", "3">>],
      [re |-> "lib(-([0-9]+))?", value |-> "lib-4", groups |-> <<"lib-4", "-4", "4">>],
      [re |-> "true", value |-> "true", groups |-> <<"true">>],
      [re |-> "WordPress", value |-> "WordPress 6.4", groups |-> <<"WordPress">>],
      [re |-> "jquery[-.]([\\d.]+)\\.min\\.js",
       value |-> "https://cdn.example.com/jquery-3.6.0.min.js",
       groups |-> <<"jquery-3.6.0.min.js", "3.6.0">>] }

NoMatch == [matched |-> FALSE, groups |-> <<>>]

RegexMatch(re, value) ==
    IF re = "" THEN [matched |-> TRUE, groups |-> <<"">>]
    ELSE IF \E e \in RegexTable : e.re = re /\ e.value = value
    THEN [matched |-> TRUE,
          groups |-> (CHOOSE e \in RegexTable : e.re = re /\ e.value = value).groups]
    ELSE NoMatch

\* ---------------------------------------------------- pattern compiler

\* versionGroup = null
NoGroup == -1

NoPattern == [ok |-> FALSE, regex |-> "", versionGroup |-> NoGroup, confidence |-> 100]

RECURSIVE ParseOpts(_, _, _)
ParseOpts(opts, i, acc) ==
    IF i > Len(opts) THEN acc
    ELSE ParseOpts(opts, i + 1,
            IF opts[i].k = "version" THEN [acc EXCEPT !.versionGroup = opts[i].v]
            ELSE IF opts[i].k = "confidence" THEN [acc EXCEPT !.confidence = opts[i].v]
            ELSE acc)

\* parsePattern: null (ok = FALSE) for an empty string and for a regex body
\* that does not compile.  A version option n stands for the token \n.
parsePattern(pattern) ==
    IF IsEmptyString(pattern) THEN NoPattern
    ELSE IF pattern.re \in Uncompilable THEN NoPattern
    ELSE ParseOpts(pattern.opts, 1,
            [ok |-> TRUE, regex |-> pattern.re, versionGroup |-> NoGroup, confidence |-> 100])

\* Mutant of extractVersion: the whole match is taken for the version.
extractVersionWholeMatch(groups, versionGroup) ==
    IF versionGroup = NoGroup THEN Null
    ELSE IF 1 \in DOMAIN groups /\ Truthy(groups[1]) THEN groups[1]
    ELSE Null

\* extractVersion: match[groupNum] || null.
extractVersion(groups, versionGroup) ==
    IF versionGroup = NoGroup THEN Null
    ELSE IF versionGroup + 1 \in DOMAIN groups /\ Truthy(groups[versionGroup + 1])
    THEN groups[versionGroup + 1]
    ELSE Null

NoResult == [matched |-> FALSE, version |-> Null, confidence |-> 0]

RECURSIVE TestList(_, _, _)
TestList(list, i, value) ==
    IF i > Len(list) THEN NoResult
    ELSE LET parsed == parsePattern(list[i])
             m == RegexMatch(parsed.regex, value)
         IN  IF ~parsed.ok THEN TestList(list, i + 1, value)
             ELSE IF m.matched
             THEN [matched |-> TRUE,
                   version |-> extractVersion(m.groups, parsed.versionGroup),
                   confidence |-> parsed.confidence]
             ELSE TestList(list, i + 1, value)

\* Mutant of testPatterns: an alternative that does not compile makes the
\* whole list fail.
testPatternsAllOrNothing(patterns, value) ==
    IF ~SigTruthy(patterns) \/ ~Truthy(value) THEN NoResult
    ELSE IF \E i \in DOMAIN patterns.pats : patterns.pats[i].re \in Uncompilable
    THEN NoResult
    ELSE TestList(ToList(patterns), 1, value)

\* Mutant of testPatterns: the last alternative that matches wins.
testPatternsLastWins(patterns, value) ==
    IF ~SigTruthy(patterns) \/ ~Truthy(value) THEN NoResult
    ELSE LET list == ToList(patterns)
         IN  TestList([i \in DOMAIN list |-> list[Len(list) + 1 - i]], 1, value)

\* testPatterns: the first alternative that matches, or null.
testPatterns(patterns, value) ==
    IF ~SigTruthy(patterns) \/ ~Truthy(value) THEN NoResult
    ELSE TestList(ToList(patterns), 1, value)

\* ------------------------------------------------------ technology rules

\* One entry of a rule's meta/js/headers/cookies map or of attributes.
Entry(k, p) == [k |-> k, p |-> p]

\* The check set of one dom selector: which keys it has, the text pattern
\* and the attribute patterns; isNull: the JSON holds null for the selector.
Checks(exists, text, hasAttributes, attributes) ==
    [isNull |-> FALSE, exists |-> exists, text |-> text,
     hasAttributes |-> hasAttributes, attributes |-> attributes]
NoChecks == Checks(FALSE, NoSig, FALSE, <<>>)
NullChecks == [NoChecks EXCEPT !.isNull = TRUE]
DomEntry(sel, checks) == [sel |-> sel, checks |-> checks]

\* One token of implies: "<name>\;confidence:<n>"; isString = FALSE is an
\* entry that is no string (a number in the JSON).
Implied(name, opts) == [isString |-> TRUE, name |-> name, opts |-> opts]
ImpliedTo(name) == Implied(name, <<>>)
ImpliedAt(name, c) == Implied(name, <<Opt("confidence", c)>>)
NotAString == [isString |-> FALSE, name |-> "", opts |-> <<>>]

\* A technology rule with every field absent.
NoRule ==
    [scriptSrc |-> NoSig, xhr |-> NoSig, meta |-> <<>>, js |-> <<>>,
     html |-> NoSig, headers |-> <<>>, cookies |-> <<>>, dom |-> <<>>,
     implies |-> <<>>, cats |-> <<>>, website |-> Undefined, icon |-> Undefined]

\* ------------------------------------------------------- signal matcher

\* totalConfidence and detectedVersion of the technology being evaluated;
\* versions is the history of the non-null versions the signal evaluations
\* produced, in order.
ZeroAcc == [total |-> 0, version |-> Null, versions |-> <<>>]

\* Mutant of AddResult: a version already found is kept.
AddResultKeepFirst(acc, result) ==
    IF result.matched
    THEN [total |-> acc.total + result.confidence,
          version |-> IF Truthy(acc.version) THEN acc.version
                      ELSE IF Truthy(result.version) THEN result.version ELSE acc.version,
          versions |-> IF Truthy(result.version)
                       THEN Append(acc.versions, result.version) ELSE acc.versions]
    ELSE acc

\* if (result?.matched) { totalConfidence += result.confidence;
\*                        if (result.version) detectedVersion = result.version; }
AddResult(acc, result) ==
    IF result.matched
    THEN [total |-> acc.total + result.confidence,
          version |-> IF Truthy(result.version) THEN result.version ELSE acc.version,
          versions |-> IF Truthy(result.version)
                       THEN Append(acc.versions, result.version) ELSE acc.versions]
    ELSE acc

AddFull(acc) == [acc EXCEPT !.total = acc.total + 100]

RECURSIVE FoldUrls(_, _, _, _)
FoldUrls(patterns, urls, i, acc) ==
    IF i > Len(urls) THEN acc
    ELSE FoldUrls(patterns, urls, i + 1,
                  AddResult(acc, testPatterns(Many(patterns), urls[i])))

\* Mutant of CheckUrls: a technology counts once, by its first matching URL.
CheckUrlsOnce(sig, urls, acc) ==
    IF SigTruthy(sig) /\ Len(urls) > 0
    THEN LET hits == {i \in DOMAIN urls : testPatterns(Many(ToList(sig)), urls[i]).matched}
         IN  IF hits = {} THEN acc
             ELSE AddResult(acc, testPatterns(Many(ToList(sig)),
                                              urls[CHOOSE i \in hits : \A h \in hits : i <= h]))
    ELSE acc

\* scriptSrc and xhr: every URL is tested.
CheckUrls(sig, urls, acc) ==
    IF SigTruthy(sig) /\ Len(urls) > 0
    THEN FoldUrls(ToList(sig), urls, 1, acc)
    ELSE acc

RECURSIVE CheckMeta(_, _, _, _)
CheckMeta(entries, meta, i, acc) ==
    IF i > Len(entries) THEN acc
    ELSE LET pattern == entries[i].p
             metaValue == Lookup(meta, ToLower(entries[i].k))
             result == testPatterns(pattern, metaValue)
         IN  CheckMeta(entries, meta, i + 1,
                IF ~Truthy(metaValue) THEN acc
                ELSE IF result.matched THEN AddResult(acc, result)
                ELSE IF pattern = One(EmptyString) THEN AddFull(acc)
                ELSE acc)

RECURSIVE CheckJs(_, _, _, _)
CheckJs(entries, jsGlobals, i, acc) ==
    IF i > Len(entries) THEN acc
    ELSE LET pattern == entries[i].p
             jsValue == Lookup(jsGlobals, entries[i].k)
         IN  CheckJs(entries, jsGlobals, i + 1,
                IF jsValue = Undefined THEN acc
                ELSE IF pattern = One(EmptyString) THEN AddFull(acc)
                ELSE AddResult(acc, testPatterns(pattern, JsString(jsValue))))

CheckHtml(sig, html, acc) ==
    IF SigTruthy(sig) /\ Truthy(html)
    THEN AddResult(acc, testPatterns(Many(ToList(sig)), html))
    ELSE acc

RECURSIVE CheckHeaders(_, _, _, _)
CheckHeaders(entries, headers, i, acc) ==
    IF i > Len(entries) THEN acc
    ELSE LET pattern == entries[i].p
             headerValue == Lookup(headers, ToLower(entries[i].k))
         IN  CheckHeaders(entries, headers, i + 1,
                IF ~Truthy(headerValue) THEN acc
                ELSE IF pattern = One(EmptyString) THEN AddFull(acc)
                ELSE AddResult(acc, testPatterns(pattern, headerValue)))

\* pageData.cookies.find(c => c.name.toLowerCase() === cookieName.toLowerCase())
FindCookie(cookies, cookieName) ==
    LET hits == {j \in DOMAIN cookies : ToLower(cookies[j].name) = ToLower(cookieName)}
    IN  IF hits = {} THEN 0 ELSE CHOOSE j \in hits : \A h \in hits : j <= h

RECURSIVE CheckCookies(_, _, _, _)
CheckCookies(entries, cookies, i, acc) ==
    IF i > Len(entries) THEN acc
    ELSE LET pattern == entries[i].p
             at == FindCookie(cookies, entries[i].k)
         IN  CheckCookies(entries, cookies, i + 1,
                IF at = 0 THEN acc
                ELSE IF pattern = One(EmptyString) THEN AddFull(acc)
                ELSE AddResult(acc, testPatterns(pattern, cookies[at].value)))

RECURSIVE CheckAttributes(_, _, _, _)
CheckAttributes(entries, attributes, i, acc) ==
    IF i > Len(entries) THEN acc
    ELSE LET attrValue == Lookup(attributes, entries[i].k)
         IN  CheckAttributes(entries, attributes, i + 1,
                IF Truthy(attrValue)
                THEN AddResult(acc, testPatterns(entries[i].p, attrValue))
                ELSE acc)

\* Object.keys(checks).length === 0 || checks.exists === ''
ExistenceOnly(checks) ==
    \/ (~checks.exists /\ checks.text = NoSig /\ ~checks.hasAttributes)
    \/ checks.exists

\* Mutant of CheckSelector: the attributes are tested only when the text
\* did not match.
CheckSelectorTextOrAttributes(checks, domResult, acc) ==
    IF ExistenceOnly(checks) THEN AddFull(acc)
    ELSE LET afterText ==
                 IF SigTruthy(checks.text) /\ Truthy(domResult.text)
                 THEN AddResult(acc, testPatterns(checks.text, domResult.text))
                 ELSE acc
         IN  IF checks.hasAttributes /\ afterText = acc
             THEN CheckAttributes(checks.attributes, domResult.attributes, 1, afterText)
             ELSE afterText

CheckSelector(checks, domResult, acc) ==
    IF ExistenceOnly(checks) THEN AddFull(acc)
    ELSE LET afterText ==
                 IF SigTruthy(checks.text) /\ Truthy(domResult.text)
                 THEN AddResult(acc, testPatterns(checks.text, domResult.text))
                 ELSE acc
         IN  IF checks.hasAttributes
             THEN CheckAttributes(checks.attributes, domResult.attributes, 1, afterText)
             ELSE afterText

\* if (domResult?.exists)
DomExists(domResults, sel) == sel \in DOMAIN domResults /\ domResults[sel].exists

RECURSIVE CheckDom(_, _, _, _)
CheckDom(entries, domResults, i, acc) ==
    IF i > Len(entries) THEN acc
    ELSE CheckDom(entries, domResults, i + 1,
            IF DomExists(domResults, entries[i].sel) /\ ~entries[i].checks.isNull
            THEN CheckSelector(entries[i].checks, domResults[entries[i].sel], acc)
            ELSE acc)

\* Object.keys(checks) throws a TypeError for a null check set of a selector
\* the page has.
DomThrows(entries, domResults) ==
    \E i \in DOMAIN entries :
        DomExists(domResults, entries[i].sel) /\ entries[i].checks.isNull

\* The iteration for this technology throws.
EvaluateThrows(tech, data) == DomThrows(tech.dom, data.domResults)

\* One iteration of the loop over Object.entries(technologies): the signals
\* in the order scriptSrc, xhr, meta, js, html, headers, cookies, dom.
Evaluate(tech, data, sUrls, xUrls) ==
    LET a1 == CheckUrls(tech.scriptSrc, sUrls, ZeroAcc)
        a2 == CheckUrls(tech.xhr, xUrls, a1)
        a3 == CheckMeta(tech.meta, data.meta, 1, a2)
        a4 == CheckJs(tech.js, data.jsGlobals, 1, a3)
        a5 == CheckHtml(tech.html, data.html, a4)
        a6 == CheckHeaders(tech.headers, data.headers, 1, a5)
        a7 == CheckCookies(tech.cookies, data.cookies, 1, a6)
    IN  CheckDom(tech.dom, data.domResults, 1, a7)

\* ---------------------------------------------------------------- state

VARIABLES
    technologies,   \* the store: Object.entries(technologies), in order
    categories,     \* category id -> category name
    page,           \* what the page collaborator answers (cookies, html, ...)
    collector,      \* the response headers gathered before navigation
    scriptUrls,     \* argument scriptUrls
    xhrUrls,        \* argument xhrUrls
    failAt,         \* which awaited page call throws (0: none)
    pageData,       \* the result of collectPageData
    detected,       \* the Map detected, in insertion order
    pc,             \* where detectTechnologies stands
    idx,            \* position of the loop over the store
    changed,        \* the flag of the implies loop
    pos,            \* position of the iteration over detected.entries()
    result,         \* what detectTechnologies returned
    files,          \* the wappalyzer directory: categories.json and the shards
    reads,          \* the number of readFileSync calls made so far
    loadCalls,      \* the number of calls of loadWappalyzerData that are over
    loadState,      \* "start", "loaded", or "failed" when the load threw
    runs,           \* the calls of detectTechnologies in flight at once
    analyze,        \* one /analyze request: its inputs and where it stands
    call,           \* the last call of addDetection on a name the Map holds
    response,       \* the last response event the header collector was given
    fetch           \* one call of fetchLinkedInPage: its attempts and its outcome

\* What the loader reads and writes besides the two mappings.
loaderVars == <<files, reads, loadCalls, loadState>>

\* The state of the other parts of the program.
\* The header collector's last event and the LinkedIn fetch.
rest == <<response, fetch>>

apart == <<loaderVars, runs, analyze, call, rest>>

vars == <<technologies, categories, page, collector, scriptUrls, xhrUrls, failAt,
          pageData, detected, pc, idx, changed, pos, result, apart>>

\* What a detection run reads and never writes.
inputs == <<technologies, categories, page, collector, scriptUrls, xhrUrls, failAt,
            apart>>

\* What a detection run writes.
runVars == <<pageData, detected, pc, idx, changed, pos, result>>

\* --------------------------------------------------------------- store

\* Names every plain object inherits from Object.prototype.
ObjectPrototypeKeys == {"constructor", "toString", "valueOf", "hasOwnProperty"}

StoreIndex(store, name) ==
    LET hits == {j \in DOMAIN store : store[j].name = name}
    IN  IF hits = {} THEN 0 ELSE CHOOSE j \in hits : TRUE

\* technologies[name] is truthy: an own entry, or an inherited member.
StoreTruthy(store, name) ==
    StoreIndex(store, name) # 0 \/ name \in ObjectPrototypeKeys

\* technologies[name]: the rule; of an inherited member every rule field is
\* undefined.
StoreGet(store, name) ==
    IF StoreIndex(store, name) # 0 THEN store[StoreIndex(store, name)].rule ELSE NoRule

\* categories[catId]?.name || 'Unknown'
CategoryName(cats, catId) ==
    IF catId \in DOMAIN cats /\ Truthy(cats[catId]) THEN cats[catId] ELSE "Unknown"

\* -------------------------------------------------------------- loader

\* A file of the wappalyzer directory: absent, present with text JSON.parse
\* rejects, or present with parsed content `data`.
File(data) == [exists |-> TRUE, valid |-> TRUE, data |-> data]
MissingFile == [exists |-> FALSE, valid |-> FALSE, data |-> <<>>]
UnreadableFile == [exists |-> TRUE, valid |-> FALSE, data |-> <<>>]

\* JSON.parse(readFileSync(path)) returns a value (it throws otherwise).
Readable(file) == file.exists /\ file.valid

\* One key of { ...technologies, ...data }: a key the object has keeps its
\* place and takes the new value, a new key goes to the end.
Put(store, entry) ==
    IF StoreIndex(store, entry.name) # 0
    THEN [store EXCEPT ![StoreIndex(store, entry.name)] = entry]
    ELSE Append(store, entry)

RECURSIVE Merge(_, _, _)
Merge(store, data, i) ==
    IF i > Len(data) THEN store ELSE Merge(Put(store, data[i]), data, i + 1)

\* The loop over techFiles from place i on: a shard that cannot be read is
\* skipped by the empty catch.
RECURSIVE LoadShardsFrom(_, _, _)
LoadShardsFrom(shards, i, store) ==
    IF i > Len(shards) THEN store
    ELSE LoadShardsFrom(shards, i + 1,
            IF Readable(shards[i]) THEN Merge(store, shards[i].data, 1) ELSE store)

\* The index of the first shard that cannot be read, Len + 1 for none.
FirstUnreadable(shards) ==
    LET bad == {i \in DOMAIN shards : ~Readable(shards[i])}
    IN  IF bad = {} THEN Len(shards) + 1 ELSE CHOOSE i \in bad : \A k \in bad : i <= k

\* Mutant of loadShards: the try block is around the loop, the first shard
\* that cannot be read ends it.
loadShardsUntilError(shards) ==
    LoadShardsFrom(SubSeq(shards, 1, FirstUnreadable(shards) - 1), 1, <<>>)

\* for (const file of techFiles) { try { ... } catch (e) { } }
loadShards(shards) == LoadShardsFrom(shards, 1, <<>>)

\* ---------------------------------------------------------- aggregation

Max(a, b) == IF a >= b THEN a ELSE b
Min(a, b) == IF a <= b THEN a ELSE b

IndexOf(det, name) ==
    LET hits == {j \in DOMAIN det : det[j].name = name}
    IN  IF hits = {} THEN 0 ELSE CHOOSE j \in hits : TRUE

Has(det, name) == IndexOf(det, name) # 0

\* Mutant of Clamp: the confidence is stored as computed.
ClampNone(c) == c

\* Math.min(newConfidence, 100)
Clamp(c) == Min(c, 100)

OrNull(v) == IF Truthy(v) THEN v ELSE Null

\* Mutant of addDetection: the new confidence replaces the existing one.
addDetectionOverwrite(det, cats, techName, tech, confidence, version) ==
    LET at == IndexOf(det, techName)
        newVersion == IF Truthy(version) THEN version
                      ELSE IF at # 0 THEN OrNull(det[at].version) ELSE Null
        rec == [name |-> techName,
                confidence |-> Clamp(confidence),
                version |-> newVersion,
                categories |-> [j \in DOMAIN tech.cats |->
                                   [id |-> tech.cats[j], name |-> CategoryName(cats, tech.cats[j])]],
                website |-> OrNull(tech.website),
                icon |-> OrNull(tech.icon)]
    IN  IF at # 0 THEN [det EXCEPT ![at] = rec] ELSE Append(det, rec)

\* addDetection: detected.set keeps the place of a key the Map already has
\* and appends a new key.
addDetection(det, cats, techName, tech, confidence, version) ==
    LET at == IndexOf(det, techName)
        newConfidence == IF at # 0 THEN Max(det[at].confidence, confidence) ELSE confidence
        newVersion == IF Truthy(version) THEN version
                      ELSE IF at # 0 THEN OrNull(det[at].version) ELSE Null
        rec == [name |-> techName,
                confidence |-> Clamp(newConfidence),
                version |-> newVersion,
                categories |-> [j \in DOMAIN tech.cats |->
                                   [id |-> tech.cats[j], name |-> CategoryName(cats, tech.cats[j])]],
                website |-> OrNull(tech.website),
                icon |-> OrNull(tech.icon)]
    IN  IF at # 0 THEN [det EXCEPT ![at] = rec] ELSE Append(det, rec)

\* No call of addDetection on a name the Map holds has been made.
NoCall == [name |-> "", confidence |-> 0, version |-> Null, before |-> <<>>]

\* Mutant of Record: a technology with no contribution is recorded too.
RecordNonNegative(det, cats, entry, acc) ==
    IF acc.total >= 0
    THEN addDetection(det, cats, entry.name, entry.rule, acc.total, acc.version)
    ELSE det

\* if (totalConfidence > 0) addDetection(techName, tech, totalConfidence, detectedVersion)
Record(det, cats, entry, acc) ==
    IF acc.total > 0
    THEN addDetection(det, cats, entry.name, entry.rule, acc.total, acc.version)
    ELSE det

\* The loop over Object.entries(technologies) from place i on; threw: an
\* iteration threw and the loop was left.
RECURSIVE MatchFrom(_, _, _, _, _, _, _)
MatchFrom(store, i, data, sUrls, xUrls, cats, det) ==
    IF i > Len(store) THEN [det |-> det, threw |-> FALSE]
    ELSE IF EvaluateThrows(store[i].rule, data) THEN [det |-> det, threw |-> TRUE]
    ELSE MatchFrom(store, i + 1, data, sUrls, xUrls, cats,
                   Record(det, cats, store[i], Evaluate(store[i].rule, data, sUrls, xUrls)))

\* ------------------------------------------------------- page discovery

\* A URL string: `id` tells two strings apart, `valid` is whether new URL
\* accepts it, `host` its hostname and `hits` the path patterns its
\* lower-cased pathname includes.
Url(id, host, hits) == [id |-> id, valid |-> TRUE, host |-> host, hits |-> hits]
NotAUrl(id) == [id |-> id, valid |-> FALSE, host |-> "", hits |-> {}]

\* hostname.replace(/^www\./, '')
normalizeHostname(hostname) ==
    CASE hostname = "www.x.com" -> "x.com"
      [] hostname = "www.y.com" -> "y.com"
      [] OTHER -> hostname

\* filterSameDomain: a string new URL rejects is dropped.
filterSameDomain(urls, baseUrl) ==
    SelectSeq(urls, LAMBDA u : u.valid /\ normalizeHostname(u.host)
                                            = normalizeHostname(baseUrl.host))

\* The tiers of path patterns, pricing first.
PRIORITY_PATTERNS ==
    << {"/pricing", "/price", "/plans"},
       {"/features", "/solutions", "/products", "/services"} >>

\* [...new Set(seq)]: the first occurrence of each element, in order.
RECURSIVE UniqueFrom(_, _, _)
UniqueFrom(seq, i, acc) ==
    IF i > Len(seq) THEN acc
    ELSE UniqueFrom(seq, i + 1,
            IF \E k \in DOMAIN acc : acc[k] = seq[i] THEN acc ELSE Append(acc, seq[i]))

Unique(seq) == UniqueFrom(seq, 1, <<>>)

\* seq.slice(0, n) for n >= 0
Take(seq, n) == SubSeq(seq, 1, Min(n, Len(seq)))

RECURSIVE Flat(_, _)
Flat(seqs, i) == IF i > Len(seqs) THEN <<>> ELSE seqs[i] \o Flat(seqs, i + 1)

\* findPatternMatches: the URLs of each tier in input order, the tiers in
\* priority order, without duplicates.
findPatternMatches(urls) ==
    LET matchesByTier ==
            [tier \in DOMAIN PRIORITY_PATTERNS |->
                SelectSeq(urls, LAMBDA u : u.valid /\ u.hits \cap PRIORITY_PATTERNS[tier] # {})]
    IN  Unique(Flat(matchesByTier, 1))

\* The number of candidates given to the AI.
MaxCandidates == 100

\* What the AI answered: text parseAIJson turns into an array of strings, or
\* anything else (ok = FALSE), on which the try block throws.
Answer(urls) == [ok |-> TRUE, urls |-> urls]
NoAnswer == [ok |-> FALSE, urls |-> <<>>]

\* askAIToPickPages: the AI is not asked about an empty list.
askAIToPickPages(urls, maxPages, answer) ==
    LET candidates == Take(urls, MaxCandidates)
    IN  IF Len(candidates) = 0 THEN <<>>
        ELSE IF ~answer.ok THEN <<>>
        ELSE Take(SelectSeq(answer.urls,
                            LAMBDA u : \E k \in DOMAIN candidates : candidates[k] = u),
                  maxPages)

\* parseInt(process.env.MAX_PAGES_TO_VISIT) || 4; env 0 stands for a variable
\* that is unset, 0 or no number.
DefaultMaxPages == 4
maxPagesToVisit(env) == IF env = 0 THEN DefaultMaxPages ELSE env

\* Mutant of getPagesToVisit: the combined list is returned whole.
getPagesToVisitUnlimited(homepageLinks, baseUrl, sitemapUrls, maxPages, answer) ==
    LET selectedPages ==
            IF Len(sitemapUrls) > 0
            THEN findPatternMatches(filterSameDomain(sitemapUrls, baseUrl))
            ELSE <<>>
        aiSelected == askAIToPickPages(filterSameDomain(homepageLinks, baseUrl),
                                       maxPages - Len(selectedPages), answer)
    IN  IF Len(selectedPages) >= maxPages THEN selectedPages
        ELSE Unique(selectedPages \o aiSelected)

\* getPagesToVisit: the pattern matches of the sitemap, filled up with what
\* the AI picks from the homepage links.
getPagesToVisit(homepageLinks, baseUrl, sitemapUrls, maxPages, answer) ==
    LET selectedPages ==
            IF Len(sitemapUrls) > 0
            THEN findPatternMatches(filterSameDomain(sitemapUrls, baseUrl))
            ELSE <<>>
        aiSelected == askAIToPickPages(filterSameDomain(homepageLinks, baseUrl),
                                       maxPages - Len(selectedPages), answer)
    IN  IF Len(selectedPages) >= maxPages THEN Take(selectedPages, maxPages)
        ELSE Take(Unique(selectedPages \o aiSelected), maxPages)

\* No request is being served.
NoRequest ==
    [phase |-> "none", env |-> 0, useAI |-> TRUE, targetUrl |-> NotAUrl(0),
     links |-> <<>>, sitemapUrls |-> <<>>, pagesToVisit |-> <<>>, next |-> 1,
     navigations |-> 0, analysed |-> 0,
     hasUrl |-> TRUE, responses |-> 0, statusCode |-> 0, error |-> "",
     browser |-> "none", context |-> "none", closeCalls |-> 0]

\* error.message.includes('timeout') and error.message.includes('net::ERR')
\* on the messages the model uses.
IncludesTimeout(message) ==
    message \in {"navigation timeout", "timeout after net::ERR_FAILED"}
IncludesNetErr(message) ==
    message \in {"net::ERR_CONNECTION_REFUSED", "timeout after net::ERR_FAILED"}

\* let statusCode = 500; if (...'timeout') statusCode = 504;
\* if (...'net::ERR') statusCode = 503
statusCode(message) ==
    IF IncludesNetErr(message) THEN 503
    ELSE IF IncludesTimeout(message) THEN 504
    ELSE 500

\* res.status(code).json(...): one response is sent.
Send(a, code) == [a EXCEPT !.responses = @ + 1, !.statusCode = code]

\* throw: the request goes to the catch block with this error.
Thrown(a, message) == [a EXCEPT !.phase = "failed", !.error = message]

\* Mutant of closeBrowser: the browser is closed only with its context.
closeBrowserWithContext(a) ==
    [a EXCEPT !.closeCalls = @ + 1,
              !.context = IF a.context = "open" THEN "closed" ELSE @,
              !.browser = IF a.context = "open" /\ a.browser = "open" THEN "closed" ELSE @]

\* closeBrowser(context, browser): each is closed if it is not null; what
\* close() throws is swallowed.
closeBrowser(a) ==
    [a EXCEPT !.closeCalls = @ + 1,
              !.context = IF a.context = "open" THEN "closed" ELSE @,
              !.browser = IF a.browser = "open" THEN "closed" ELSE @]

\* ------------------------------------------------------- LinkedIn fetch

\* const MAX_RETRIES = 5
MAX_RETRIES == 5

\* What one awaited fetch(targetUrl, fetchOptions) comes to: a response with
\* a status, whose body can be read or not; the abort of the timeout; or
\* another rejection.
Settled(kind, status, bodyOk) == [kind |-> kind, status |-> status, bodyOk |-> bodyOk]

\* response.ok
Ok(status) == status >= 200 /\ status <= 299

\* The text of the page, as response.text() resolves it.
PageText == "<html>"

\* Mutant of settle: a status that is not OK is thrown to the caller.
settleUncaught(f, o) ==
    LET n == f.attempt + 1
        tried == [f EXCEPT !.attempt = n, !.log = Append(f.log, o)]
        again == IF n < MAX_RETRIES THEN tried
                 ELSE [tried EXCEPT !.phase = "returned", !.value = Null]
    IN  IF o.kind # "response" THEN again
        ELSE IF o.status = 404 THEN [tried EXCEPT !.phase = "returned", !.value = Null]
        ELSE IF o.status = 429 \/ o.status = 403 \/ o.status >= 500 THEN again
        ELSE IF ~Ok(o.status) THEN [tried EXCEPT !.phase = "returned", !.threw = TRUE]
        ELSE IF o.bodyOk THEN [tried EXCEPT !.phase = "returned", !.value = PageText]
        ELSE again

\* One iteration of the for loop of fetchLinkedInPage once its fetch has
\* settled as o, up to the next await or the return: 404 returns null; 429,
\* 403 and 5xx continue; a status that is not OK throws into the catch,
\* which continues, as do a rejected fetch and a body that cannot be read;
\* after the last iteration the function returns null.
settle(f, o) ==
    LET n == f.attempt + 1
        tried == [f EXCEPT !.attempt = n, !.log = Append(f.log, o)]
        again == IF n < MAX_RETRIES THEN tried
                 ELSE [tried EXCEPT !.phase = "returned", !.value = Null]
    IN  IF o.kind # "response" THEN again
        ELSE IF o.status = 404 THEN [tried EXCEPT !.phase = "returned", !.value = Null]
        ELSE IF o.status = 429 \/ o.status = 403 \/ o.status >= 500 THEN again
        ELSE IF ~Ok(o.status) THEN again
        ELSE IF o.bodyOk THEN [tried EXCEPT !.phase = "returned", !.value = PageText]
        ELSE again

\* --------------------------------------------------- implication closure

RECURSIVE ImpliedConfidence(_, _, _)
ImpliedConfidence(opts, i, c) ==
    IF i > Len(opts) THEN c
    ELSE ImpliedConfidence(opts, i + 1,
            IF opts[i].k = "confidence" THEN opts[i].v ELSE c)

\* Mutant of impliedConfidence: the confidence suffix is not read.
impliedConfidenceDefault(implied) == 100

\* let impliedConfidence = 100, replaced by the confidence:<n> part of the
\* token.
impliedConfidence(implied) == ImpliedConfidence(implied.opts, 1, 100)

\* Mutant of MayAdd: without the guard on names already detected.
MayAddAgain(det, store, impliedName) == StoreTruthy(store, impliedName)

\* if (!detected.has(impliedName) && technologies[impliedName])
MayAdd(det, store, impliedName) ==
    ~Has(det, impliedName) /\ StoreTruthy(store, impliedName)

\* The inner loop over one technology's implies list; threw: implied.includes
\* is called on an entry that is no string.
RECURSIVE ProcessImplies(_, _, _, _, _)
ProcessImplies(list, i, store, cats, st) ==
    IF i > Len(list) \/ st.threw THEN st
    ELSE ProcessImplies(list, i + 1, store, cats,
            IF ~list[i].isString THEN [st EXCEPT !.threw = TRUE]
            ELSE IF MayAdd(st.det, store, list[i].name)
            THEN [det |-> addDetection(st.det, cats, list[i].name,
                                       StoreGet(store, list[i].name),
                                       impliedConfidence(list[i]), Null),
                  changed |-> TRUE, threw |-> FALSE]
            ELSE st)

\* Mutant of VisitEntry: the loop runs over the store, detected or not.
VisitEntryOfStore(det, p, store, cats, chg) ==
    ProcessImplies(IF p \in DOMAIN store THEN store[p].rule.implies ELSE <<>>, 1, store, cats,
                   [det |-> det, changed |-> chg, threw |-> FALSE])

\* The body of the for loop over detected.entries() for the entry at p.
VisitEntry(det, p, store, cats, chg) ==
    ProcessImplies(StoreGet(store, det[p].name).implies, 1, store, cats,
                   [det |-> det, changed |-> chg, threw |-> FALSE])

\* The state of the while loop: the Map, the place of the iterator, the flag,
\* whether an entry threw and whether the loop was left.
LoopStart(det) ==
    [det |-> det, pos |-> 1, changed |-> FALSE, threw |-> FALSE, done |-> FALSE]

\* One step of the loop: the next entry of the running pass or, at the end of
\* a pass, while (changed).
LoopStep(ls, store, cats) ==
    IF ls.pos <= Len(ls.det)
    THEN LET st == VisitEntry(ls.det, ls.pos, store, cats, ls.changed)
         IN  [det |-> st.det, pos |-> ls.pos + 1, changed |-> st.changed,
              threw |-> st.threw, done |-> FALSE]
    ELSE IF ls.changed THEN [ls EXCEPT !.pos = 1, !.changed = FALSE]
    ELSE [ls EXCEPT !.done = TRUE]

RECURSIVE RunLoop(_, _, _)
RunLoop(ls, store, cats) ==
    IF ls.done \/ ls.threw THEN ls ELSE RunLoop(LoopStep(ls, store, cats), store, cats)

\* One entry of a single pass over the names the Map held when the pass
\* began.
RECURSIVE SnapshotPass(_, _, _, _, _)
SnapshotPass(ls, n, p, store, cats) ==
    IF p > n \/ ls.threw THEN [ls EXCEPT !.done = TRUE]
    ELSE LET st == VisitEntry(ls.det, p, store, cats, ls.changed)
         IN  SnapshotPass([ls EXCEPT !.det = st.det, !.changed = st.changed,
                                     !.threw = st.threw], n, p + 1, store, cats)

\* Mutant of Resolve: one pass over a copy of the detected names, without
\* the fixpoint loop.
ResolveOnePass(det, store, cats) ==
    SnapshotPass(LoopStart(det), Len(det), 1, store, cats)

\* The whole resolver: the implies loop run on a result map to its end.
Resolve(det, store, cats) == RunLoop(LoopStart(det), store, cats)

\* -------------------------------------------------------------- ranking

\* The confidence floor of the filter.
Floor == 50

\* The category id that marks a content management system.
CmsCategory == 1

\* Mutant of PassesFloor: a record exactly at the floor is dropped.
PassesFloorStrict(d) == d.confidence > Floor

\* .filter(d => d.confidence >= 50)
PassesFloor(d) == d.confidence >= Floor

\* The comparator (a, b) => b.confidence - a.confidence
Compare(a, b) == b.confidence - a.confidence

\* Mutant of InsertSorted: an unstable sort, d goes before its equals.
InsertSortedUnstable(sorted, d) ==
    LET k == Cardinality({j \in DOMAIN sorted : Compare(sorted[j], d) < 0})
    IN  SubSeq(sorted, 1, k) \o <<d>> \o SubSeq(sorted, k + 1, Len(sorted))

\* Array.prototype.sort is stable: d goes after every element that does not
\* compare greater than it.
InsertSorted(sorted, d) ==
    LET k == Cardinality({j \in DOMAIN sorted : Compare(sorted[j], d) <= 0})
    IN  SubSeq(sorted, 1, k) \o <<d>> \o SubSeq(sorted, k + 1, Len(sorted))

RECURSIVE SortFrom(_, _, _)
SortFrom(seq, i, sorted) ==
    IF i > Len(seq) THEN sorted
    ELSE SortFrom(seq, i + 1, InsertSorted(sorted, seq[i]))

Sort(seq) == SortFrom(seq, 1, <<>>)

\* d.categories.some(c => c.id === 1)
IsCms(d) == \E j \in DOMAIN d.categories : d.categories[j].id = CmsCategory

\* Mutant of FindCms: the last CMS record of the list.
FindCmsLast(arr) ==
    LET hits == {j \in DOMAIN arr : IsCms(arr[j])}
    IN  IF hits = {} THEN 0 ELSE CHOOSE j \in hits : \A h \in hits : j >= h

\* detectedArray.find(...): the index of the first CMS record, 0 for none.
FindCms(arr) ==
    LET hits == {j \in DOMAIN arr : IsCms(arr[j])}
    IN  IF hits = {} THEN 0 ELSE CHOOSE j \in hits : \A h \in hits : j <= h

\* Mutant of Finalize: the CMS is looked for before the floor filter.
FinalizeCmsUnfiltered(det) ==
    LET detectedArray == Sort(SelectSeq(det, PassesFloor))
        all == Sort(det)
        at == FindCms(all)
    IN  [cms |-> IF at # 0 THEN OrNull(all[at].name) ELSE Null,
         cmsDetails |-> IF at # 0 THEN <<all[at]>> ELSE <<>>,
         detectedTechnologies |-> detectedArray,
         returned |-> TRUE]

\* The returned object; cmsDetails is <<>> for null and <<record>> otherwise.
Finalize(det) ==
    LET detectedArray == Sort(SelectSeq(det, PassesFloor))
        at == FindCms(detectedArray)
    IN  [cms |-> IF at # 0 THEN OrNull(detectedArray[at].name) ELSE Null,
         cmsDetails |-> IF at # 0 THEN <<detectedArray[at]>> ELSE <<>>,
         detectedTechnologies |-> detectedArray,
         returned |-> TRUE]

\* The object the catch block returns.
EmptyResult ==
    [cms |-> Null, cmsDetails |-> <<>>, detectedTechnologies |-> <<>>, returned |-> TRUE]

\* No value yet: detectTechnologies has not returned.
Pending ==
    [cms |-> Null, cmsDetails |-> <<>>, detectedTechnologies |-> <<>>, returned |-> FALSE]

\* ------------------------------------------------------ signal collector

EmptyMap == [k \in {} |-> ""]

\* Mutant of recordHeader: a later value replaces the recorded one.
recordHeaderOverwrite(responseHeaders, name, value) ==
    [k \in DOMAIN responseHeaders \cup {ToLower(name)} |->
        IF k = ToLower(name) THEN value ELSE responseHeaders[k]]

\* if (!responseHeaders.has(name.toLowerCase()))
\*     responseHeaders.set(name.toLowerCase(), value)
recordHeader(responseHeaders, name, value) ==
    IF ToLower(name) \in DOMAIN responseHeaders THEN responseHeaders
    ELSE [k \in DOMAIN responseHeaders \cup {ToLower(name)} |->
            IF k = ToLower(name) THEN value ELSE responseHeaders[k]]

RECURSIVE RecordHeaders(_, _, _)
RecordHeaders(headers, i, responseHeaders) ==
    IF i > Len(headers) THEN responseHeaders
    ELSE RecordHeaders(headers, i + 1,
                       recordHeader(responseHeaders, headers[i].name, headers[i].value))

\* The listener page.on('response', ...) of setupWappalyzerDetection.
onResponse(responseHeaders, resp) ==
    IF resp.resourceType = "document"
    THEN RecordHeaders(resp.headers, 1, responseHeaders)
    ELSE responseHeaders

Restrict(m, keys) == [k \in (DOMAIN m) \cap keys |-> m[k]]

\* getJsVarsToCheck and getDomSelectorsToCheck
JsVarsToCheck(store) ==
    UNION {{store[j].rule.js[e].k : e \in DOMAIN store[j].rule.js} : j \in DOMAIN store}

DomSelectorsToCheck(store) ==
    UNION {{store[j].rule.dom[e].sel : e \in DOMAIN store[j].rule.dom} : j \in DOMAIN store}

\* Mutant of collectPageData: a failure discards what was collected.
collectPageDataAllOrNothing(pg, coll, store, fail) ==
    IF fail = 0
    THEN [headers |-> coll.responseHeaders, cookies |-> pg.cookies, html |-> pg.html,
          meta |-> pg.meta,
          jsGlobals |-> [k \in (DOMAIN pg.jsGlobals) \cap
                                   UNION {{store[j].rule.js[e].k : e \in DOMAIN store[j].rule.js}
                                             : j \in DOMAIN store} |-> pg.jsGlobals[k]],
          domResults |-> [k \in (DOMAIN pg.domResults) \cap
                                   UNION {{store[j].rule.dom[e].sel : e \in DOMAIN store[j].rule.dom}
                                             : j \in DOMAIN store} |-> pg.domResults[k]]]
    ELSE [headers |-> <<>>, cookies |-> <<>>, html |-> "", meta |-> <<>>,
          jsGlobals |-> <<>>, domResults |-> <<>>]

\* collectPageData: the fields are filled in the order headers, cookies,
\* html, meta, jsGlobals, domResults; when the awaited call number `fail`
\* throws, the catch keeps what was filled before it.
collectPageData(pg, coll, store, fail) ==
    LET reached(n) == fail = 0 \/ fail > n
    IN  [headers |-> coll.responseHeaders,
         cookies |-> IF reached(1) THEN pg.cookies ELSE <<>>,
         html |-> IF reached(2) THEN pg.html ELSE "",
         meta |-> IF reached(3) THEN pg.meta ELSE EmptyMap,
         jsGlobals |-> IF reached(4) THEN Restrict(pg.jsGlobals, JsVarsToCheck(store)) ELSE EmptyMap,
         domResults |-> IF reached(5) THEN Restrict(pg.domResults, DomSelectorsToCheck(store)) ELSE EmptyMap]

\* detectTechnologies as a function of its arguments, the store and what the
\* page answers: collect, match, close under implies, rank; the catch block
\* returns the empty result.
detectTechnologies(store, cats, pg, coll, sUrls, xUrls, fail) ==
    LET data == collectPageData(pg, coll, store, fail)
        m == MatchFrom(store, 1, data, sUrls, xUrls, cats, <<>>)
        r == Resolve(m.det, store, cats)
    IN  IF m.threw THEN EmptyResult
        ELSE IF r.threw THEN EmptyResult
        ELSE Finalize(r.det)

\* The field of data the awaited call number k of collectPageData fills
\* when it resolves.
CollectField(data, pg, store, k) ==
    CASE k = 1 -> [data EXCEPT !.cookies = pg.cookies]
      [] k = 2 -> [data EXCEPT !.html = pg.html]
      [] k = 3 -> [data EXCEPT !.meta = pg.meta]
      [] k = 4 -> [data EXCEPT !.jsGlobals = Restrict(pg.jsGlobals, JsVarsToCheck(store))]
      [] k = 5 -> [data EXCEPT !.domResults = Restrict(pg.domResults, DomSelectorsToCheck(store))]

\* Mutant of newDetected: one Map for all calls, never cleared.
newDetectedShared(rs, r) ==
    IF \E o \in DOMAIN rs : o # r /\ rs[o].step = 7
    THEN rs[CHOOSE o \in DOMAIN rs : o # r /\ rs[o].step = 7].detected
    ELSE <<>>

\* const detected = new Map(): the Map of call r, whatever the other calls
\* hold.
newDetected(rs, r) == <<>>

\* detectTechnologies from the return of collectPageData on: synchronous up
\* to the return.
finishRun(store, cats, data, sUrls, xUrls, det) ==
    LET m == MatchFrom(store, 1, data, sUrls, xUrls, cats, det)
        r == Resolve(m.det, store, cats)
    IN  IF m.threw THEN [detected |-> m.det, result |-> EmptyResult]
        ELSE IF r.threw THEN [detected |-> r.det, result |-> EmptyResult]
        ELSE [detected |-> r.det, result |-> Finalize(r.det)]

NoData ==
    [headers |-> EmptyMap, cookies |-> <<>>, html |-> "", meta |-> EmptyMap,
     jsGlobals |-> EmptyMap, domResults |-> EmptyMap]

\* --------------------------------------------------------------- inputs

\* The largest store of the aggregation scenarios and the longest list of
\* script URLs.
MaxTechs == 3
MaxUrls == 2

\* The names of the technologies of a store, in store order.
TechNames == <<"A", "B", "C", "D", "E">>

Categories == (1 :> "CMS") @@ (2 :> "Blogs")

Gen == "gen"
GenVer == "gen-([0-9.]+)"
LibVer == "lib(-([0-9]+))?"

\* Rules that differ in direct confidence, categories and implies edges.
AggRules ==
    { [NoRule EXCEPT !.html = One(Plain(Gen)), !.cats = <<1>>,
                     !.implies = <<ImpliedTo("B")>>],
      [NoRule EXCEPT !.html = One(WithConf(Gen, 60)), !.cats = <<1>>,
                     !.implies = <<ImpliedTo("A")>>],
      [NoRule EXCEPT !.html = One(WithConf(Gen, 30)),
                     !.implies = <<ImpliedAt("C", 50)>>],
      [NoRule EXCEPT !.cats = <<1>>,
                     !.implies = <<ImpliedAt("A", 150), ImpliedTo("Zed"),
                                   ImpliedAt("B", -10)>>],
      [NoRule EXCEPT !.html = One(WithConf(Gen, 60)), !.cats = <<2>>,
                     !.implies = <<ImpliedAt("C", 49), ImpliedTo("constructor")>>],
      [NoRule EXCEPT !.scriptSrc = One(WithVerConf(LibVer, 2, 50)), !.cats = <<2, 1>>,
                     !.implies = <<ImpliedAt("B", 60)>>],
      [NoRule EXCEPT !.html = Many(<<Plain(Gen)>>), !.implies = <<NotAString>>] }

\* Rules that exercise the signal kinds of the matcher.
MatchRules ==
    { [NoRule EXCEPT !.meta = <<Entry("Generator", One(WithVer(GenVer, 1)))>>,
                     !.headers = <<Entry("X-Powered-By", One(WithVer(LibVer, 2)))>>,
                     !.cats = <<1>>],
      [NoRule EXCEPT !.scriptSrc = Many(<<WithVerConf(LibVer, 2, 40)>>),
                     !.xhr = One(WithVerConf(GenVer, 1, 30))],
      [NoRule EXCEPT !.headers = <<Entry("X-Shopify-Stage", One(EmptyString))>>],
      [NoRule EXCEPT !.meta = <<Entry("Generator", One(EmptyString))>>],
      [NoRule EXCEPT !.js = <<Entry("jQuery", One(EmptyString))>>],
      [NoRule EXCEPT !.cookies = <<Entry("SID", One(EmptyString))>>],
      [NoRule EXCEPT !.js = <<Entry("jQuery", One(WithConf("true", 30))),
                              Entry("jQuery.fn", One(WithVerConf(LibVer, 2, 30)))>>,
                     !.cookies = <<Entry("SID", One(WithVerConf(GenVer, 1, 30)))>>],
      [NoRule EXCEPT !.html = Many(<<Plain("bad("), WithConf(Gen, 40), WithVer(GenVer, 1)>>),
                     !.dom = <<DomEntry("#app", NoChecks)>>],
      [NoRule EXCEPT !.dom = <<DomEntry("#app",
                                  Checks(FALSE, One(WithVerConf(LibVer, 2, 50)), TRUE,
                                         <<Entry("data-v", One(WithVerConf(GenVer, 1, 50)))>>))>>],
      [NoRule EXCEPT !.html = One(Plain(Gen)),
                     !.dom = <<DomEntry("#app", NullChecks)>>],
      [NoRule EXCEPT !.dom = <<DomEntry("#app",
                                  Checks(TRUE, One(WithConf(LibVer, 30)), FALSE, <<>>)),
                               DomEntry("#gone", NoChecks)>>] }

\* Stores of n technologies named TechNames[1..n] with rules from `rules`.
StoresOf(n, rules) ==
    { [j \in 1..n |-> [name |-> TechNames[j], rule |-> f[j]]] : f \in [1..n -> rules] }

Cookie(name, value) == [name |-> name, value |-> value]
DomResult(text, attributes) == [exists |-> TRUE, text |-> text, attributes |-> attributes]

\* A page on which every signal is present with a value.
FullPage ==
    [cookies |-> <<Cookie("sid", "gen-6.1")>>,
     html |-> "gen-5.8",
     meta |-> ("generator" :> "gen-5.8"),
     jsGlobals |-> ("jQuery" :> JsTrue) @@ ("jQuery.fn" :> "lib-3"),
     domResults |-> ("#app" :> DomResult("lib-4", ("data-v" :> "gen-6.1")))]

\* A page on which the keys are present with empty or falsy values.
EmptyValuesPage ==
    [cookies |-> <<Cookie("SID", "")>>,
     html |-> "gen",
     meta |-> ("generator" :> ""),
     jsGlobals |-> ("jQuery" :> JsFalse) @@ ("jQuery.fn" :> ""),
     domResults |-> ("#app" :> DomResult("", EmptyMap))]

\* A page without any signal.
BlankPage ==
    [cookies |-> <<>>, html |-> "", meta |-> EmptyMap, jsGlobals |-> EmptyMap,
     domResults |-> EmptyMap]

Collectors ==
    { [responseHeaders |-> ("x-powered-by" :> "lib-3") @@ ("x-shopify-stage" :> "prod")],
      [responseHeaders |-> ("x-powered-by" :> "lib") @@ ("x-shopify-stage" :> "")],
      [responseHeaders |-> EmptyMap] }

RECURSIVE SeqsUpTo(_, _)
SeqsUpTo(S, n) ==
    IF n = 0 THEN {<<>>}
    ELSE SeqsUpTo(S, n - 1) \cup {Append(q, x) : q \in SeqsUpTo(S, n - 1), x \in S}

Scenario(store, pg, coll, sUrls, xUrls, fail) ==
    [store |-> store, page |-> pg, collector |-> coll, scriptUrls |-> sUrls,
     xhrUrls |-> xUrls, failAt |-> fail]

\* One technology with a matcher rule, on each page, with each failing step.
MatchScenarios ==
    { Scenario(st, pg, coll, sUrls, xUrls, fail) :
        st \in StoresOf(1, MatchRules),
        pg \in {FullPage, EmptyValuesPage, BlankPage},
        coll \in Collectors,
        sUrls \in SeqsUpTo({"lib-3", "lib-4"}, MaxUrls),
        xUrls \in {<<>>, <<"gen-6.1">>},
        fail \in 0..5 }

\* Up to MaxTechs technologies with aggregation rules.
AggScenarios ==
    { Scenario(st, pg, coll, sUrls, <<>>, fail) :
        st \in UNION {StoresOf(n, AggRules) : n \in 1..MaxTechs},
        pg \in {FullPage},
        coll \in {[responseHeaders |-> EmptyMap]},
        sUrls \in {<<"lib-3">>, <<"lib-3", "lib-4", "lib">>},
        fail \in {0, 2} }

\* WordPress, found at 90 by its generator meta tag, implies PHP at 50.
WordPressStore ==
    << [name |-> "WordPress",
        rule |-> [NoRule EXCEPT !.meta = <<Entry("generator", One(WithConf("WordPress", 90)))>>,
                                !.cats = <<1>>,
                                !.implies = <<ImpliedAt("PHP", 50)>>]],
       [name |-> "PHP",
        rule |-> [NoRule EXCEPT !.headers = <<Entry("X-Powered-By", One(Plain("php")))>>,
                                !.cats = <<2>>]] >>

WordPressPage == [BlankPage EXCEPT !.meta = ("generator" :> "WordPress 6.4")]

\* jQuery, found by the URL of its script, with the version in the URL.
JQueryStore ==
    << [name |-> "jQuery",
        rule |-> [NoRule EXCEPT
                    !.scriptSrc = One(WithVer("jquery[-.]([\\d.]+)\\.min\\.js", 1))]] >>

JQueryUrl == "https://cdn.example.com/jquery-3.6.0.min.js"

\* The end-to-end scenarios.
EndToEndScenarios ==
    { Scenario(WordPressStore, WordPressPage, [responseHeaders |-> EmptyMap], <<>>, <<>>, 0),
      Scenario(JQueryStore, BlankPage, [responseHeaders |-> EmptyMap], <<JQueryUrl>>, <<>>, 0) }

Scenarios == MatchScenarios \cup AggScenarios \cup EndToEndScenarios

\* The rules of the stores two concurrent calls share.
ConcRules ==
    { [NoRule EXCEPT !.html = One(Plain(Gen)), !.cats = <<1>>,
                     !.implies = <<ImpliedTo("B")>>],
      [NoRule EXCEPT !.scriptSrc = One(WithVerConf(LibVer, 2, 50)), !.cats = <<2, 1>>,
                     !.implies = <<ImpliedAt("A", 60)>>],
      [NoRule EXCEPT !.meta = <<Entry("Generator", One(WithVer(GenVer, 1)))>>,
                     !.headers = <<Entry("X-Powered-By", One(WithVer(LibVer, 2)))>>,
                     !.js = <<Entry("jQuery", One(EmptyString))>>],
      [NoRule EXCEPT !.html = One(WithConf(Gen, 60)),
                     !.dom = <<DomEntry("#app", NullChecks)>>] }

\* The longest answer of the AI.
MaxAnswer == 2

\* The URLs of a site x.com and of its surroundings.
Home == Url(1, "x.com", {})
Pricing == Url(2, "x.com", {"/pricing"})
Plans == Url(3, "www.x.com", {"/plans"})
Features == Url(4, "x.com", {"/features"})
ProductPricing == Url(5, "x.com", {"/products", "/pricing"})
Services == Url(6, "x.com", {"/services"})
About == Url(7, "x.com", {})
Foreign == Url(8, "y.com", {"/pricing"})
Broken == NotAUrl(9)

SitemapCases ==
    { <<>>, <<Pricing>>, <<Foreign, Broken, About>>,
      <<Features, Pricing, Pricing, ProductPricing>>,
      <<Pricing, Plans, Features, ProductPricing, Services, Pricing>> }

LinkCases ==
    { <<>>, <<About, Pricing, Home>>,
      <<Features, Foreign, Broken, About, Services>>,
      <<Pricing, Plans, Features, Services, About, Home>> }

AiAnswers ==
    {NoAnswer} \cup {Answer(q) : q \in SeqsUpTo({About, Pricing, Features, Foreign, Home}, MaxAnswer)}

\* The number of shard files of the directory and the number of calls of
\* loadWappalyzerData a process makes.
MaxShards == 3
MaxCalls == 3

\* What a shard file can be.
ShardContents ==
    { MissingFile, UnreadableFile, File(<<>>),
      File(<<[name |-> "A", rule |-> [NoRule EXCEPT !.html = One(Plain(Gen))]]>>),
      File(<<[name |-> "B", rule |-> [NoRule EXCEPT !.html = One(Plain(Gen))]],
             [name |-> "A", rule |-> [NoRule EXCEPT !.html = One(WithConf(Gen, 60))]]>>) }

FileSystems ==
    { [categories |-> c, shards |-> sh] :
        c \in {File(Categories), UnreadableFile},
        sh \in [1..MaxShards -> ShardContents] }

\* One header of a response.
Header(name, value) == [name |-> name, value |-> value]

\* The responses a page object can receive over its navigations.
Responses ==
    { [resourceType |-> "document",
       headers |-> <<Header("Server", "nginx"), Header("X-Powered-By", "php")>>],
      [resourceType |-> "document", headers |-> <<Header("server", "apache")>>],
      [resourceType |-> "script",
       headers |-> <<Header("X-Powered-By", "express"), Header("Via", "cdn")>>],
      [resourceType |-> "document",
       headers |-> <<Header("Via", "cdn"), Header("via", "proxy")>>],
      [resourceType |-> "document",
       headers |-> <<Header("x-powered-by", "asp"), Header("Set-Cookie", "a")>>],
      [resourceType |-> "document",
       headers |-> <<Header("set-cookie", "b"), Header("Server", "iis")>>],
      [resourceType |-> "xhr", headers |-> <<Header("Set-Cookie", "c")>>],
      [resourceType |-> "document", headers |-> <<>>] }

\* The messages of the errors a call of the handler throws.
Messages ==
    {"navigation timeout", "net::ERR_CONNECTION_REFUSED", "timeout after net::ERR_FAILED",
     "Executable doesn't exist"}

\* What a fetch of the LinkedIn page can come to.
FetchOutcomes ==
    {Settled("response", st, TRUE) : st \in {200, 404, 403, 429, 500, 400}}
        \cup {Settled("response", 200, FALSE), Settled("abort", 0, FALSE),
              Settled("error", 0, FALSE)}

\* No response event has been delivered.
NoResponse == [resourceType |-> "", headers |-> <<>>]

\* fetchLinkedInPage has not been called.
NoFetch == [phase |-> "idle", attempt |-> 0, log |-> <<>>, value |-> Null, threw |-> FALSE]

\* -------------------------------------------------------------- actions

InitWith(scenarios) ==
    /\ \E sc \in scenarios :
          /\ technologies = sc.store
          /\ page = sc.page
          /\ collector = sc.collector
          /\ scriptUrls = sc.scriptUrls
          /\ xhrUrls = sc.xhrUrls
          /\ failAt = sc.failAt
    /\ categories = Categories
    /\ pageData = NoData
    /\ detected = <<>>
    /\ pc = "collect"
    /\ idx = 1
    /\ changed = TRUE
    /\ pos = 1
    /\ result = Pending
    /\ files = [categories |-> File(Categories), shards |-> <<File(technologies)>>]
    /\ reads = 2
    /\ loadCalls = 1
    /\ loadState = "loaded"
    /\ runs = <<>>
    /\ analyze = NoRequest
    /\ call = NoCall
    /\ response = NoResponse
    /\ fetch = NoFetch

Init == InitWith(Scenarios)

\* const pageData = await collectPageData(page, collector)
Collect ==
    /\ pc = "collect"
    /\ pageData' = collectPageData(page, collector, technologies, failAt)
    /\ pc' = "match"
    /\ UNCHANGED <<inputs, detected, idx, changed, pos, result>>

\* One iteration of for (const [techName, tech] of Object.entries(technologies))
MatchTech ==
    /\ pc = "match"
    /\ idx <= Len(technologies)
    /\ ~EvaluateThrows(technologies[idx].rule, pageData)
    /\ detected' = Record(detected, categories, technologies[idx],
                          Evaluate(technologies[idx].rule, pageData, scriptUrls, xhrUrls))
    /\ idx' = idx + 1
    /\ UNCHANGED <<inputs, pageData, pc, changed, pos, result>>

\* The iteration throws a TypeError: the catch block returns the empty result.
MatchThrow ==
    /\ pc = "match"
    /\ idx <= Len(technologies)
    /\ EvaluateThrows(technologies[idx].rule, pageData)
    /\ pc' = "caught"
    /\ result' = EmptyResult
    /\ UNCHANGED <<inputs, pageData, detected, idx, changed, pos>>

\* The loop over the store is over: let changed = true; the first pass starts.
MatchDone ==
    /\ pc = "match"
    /\ idx > Len(technologies)
    /\ pc' = "implies"
    /\ changed' = FALSE
    /\ pos' = 1
    /\ UNCHANGED <<inputs, pageData, detected, idx, result>>

\* One iteration of for (const [techName] of detected.entries()): the
\* iterator of a Map also visits the entries added during the pass.
ImpliesVisit ==
    /\ pc = "implies"
    /\ pos <= Len(detected)
    /\ LET st == VisitEntry(detected, pos, technologies, categories, changed)
       IN  /\ ~st.threw
           /\ detected' = st.det
           /\ changed' = st.changed
    /\ pos' = pos + 1
    /\ UNCHANGED <<inputs, pageData, pc, idx, result>>

\* implied.includes throws a TypeError: the catch block returns the empty
\* result.
ImpliesThrow ==
    /\ pc = "implies"
    /\ pos <= Len(detected)
    /\ VisitEntry(detected, pos, technologies, categories, changed).threw
    /\ pc' = "caught"
    /\ result' = EmptyResult
    /\ UNCHANGED <<inputs, pageData, detected, idx, changed, pos>>

\* The end of a pass: while (changed) starts another pass or leaves.
PassEnd ==
    /\ pc = "implies"
    /\ pos > Len(detected)
    /\ IF changed
       THEN /\ changed' = FALSE
            /\ pos' = 1
            /\ pc' = pc
       ELSE /\ pc' = "rank"
            /\ UNCHANGED <<changed, pos>>
    /\ UNCHANGED <<inputs, pageData, detected, idx, result>>

\* Filter, sort, pick the CMS, return.
Rank ==
    /\ pc = "rank"
    /\ result' = Finalize(detected)
    /\ pc' = "returned"
    /\ UNCHANGED <<inputs, pageData, detected, idx, changed, pos>>

Next ==
    \/ Collect
    \/ MatchTech
    \/ MatchThrow
    \/ MatchDone
    \/ ImpliesVisit
    \/ ImpliesThrow
    \/ PassEnd
    \/ Rank

Spec == Init /\ [][Next]_vars

\* The resolver as a function of the result map: the detection up to the
\* implies loop, then the resolver applied, and applied again to its result.
ResolveFirst ==
    /\ pc = "implies"
    /\ LET r == Resolve(detected, technologies, categories)
       IN  /\ ~r.threw
           /\ detected' = r.det
    /\ pc' = "resolved"
    /\ UNCHANGED <<inputs, pageData, idx, changed, pos, result>>

ResolveSecond ==
    /\ pc = "resolved"
    /\ LET r == Resolve(detected, technologies, categories)
       IN  detected' = r.det
    /\ pc' = "resolved twice"
    /\ UNCHANGED <<inputs, pageData, idx, changed, pos, result>>

NextResolve ==
    \/ Collect
    \/ MatchTech
    \/ MatchDone
    \/ ResolveFirst
    \/ ResolveSecond

ResolveSpec == Init /\ [][NextResolve]_vars

\* No call of detectTechnologies has been made.
NoRun ==
    /\ page = BlankPage
    /\ collector = [responseHeaders |-> EmptyMap]
    /\ scriptUrls = <<>>
    /\ xhrUrls = <<>>
    /\ failAt = 0
    /\ pageData = NoData
    /\ detected = <<>>
    /\ pc = "idle"
    /\ idx = 1
    /\ changed = TRUE
    /\ pos = 1
    /\ result = Pending

\* The runs on a page with every signal, none of whose page calls fails.
StrengthenScenarios ==
    {sc \in Scenarios : sc.failAt = 0 /\ sc.page = FullPage /\ Len(sc.scriptUrls) <= 1}

\* addDetection as an operation of the result map: after the implies loop it
\* is called on a name the Map holds, with a confidence and a version.
Strengthen ==
    /\ pc = "rank"
    /\ \E j \in DOMAIN detected, confidence \in {40, 100, 150}, version \in {Null, "", "9.9"} :
          /\ call' = [name |-> detected[j].name, confidence |-> confidence,
                      version |-> version, before |-> detected]
          /\ detected' = addDetection(detected, categories, detected[j].name,
                                      StoreGet(technologies, detected[j].name),
                                      confidence, version)
    /\ pc' = "strengthened"
    /\ UNCHANGED <<technologies, categories, page, collector, scriptUrls, xhrUrls, failAt,
                   loaderVars, runs, analyze, rest, pageData, idx, changed, pos, result>>

NextStrengthen ==
    \/ Collect
    \/ MatchTech
    \/ MatchThrow
    \/ MatchDone
    \/ ImpliesVisit
    \/ ImpliesThrow
    \/ PassEnd
    \/ Strengthen

StrengthenSpec == InitWith(StrengthenScenarios) /\ [][NextStrengthen]_vars

\* The module before loadWappalyzerData has run: both mappings are {}.
InitLoad ==
    /\ files \in FileSystems
    /\ technologies = <<>>
    /\ categories = <<>>
    /\ reads = 0
    /\ loadCalls = 0
    /\ loadState = "start"
    /\ NoRun
    /\ call = NoCall
    /\ response = NoResponse
    /\ fetch = NoFetch
    /\ runs = <<>>
    /\ analyze = NoRequest

\* loadWappalyzerData returns at once: if (Object.keys(technologies).length > 0) return
LoadSkip ==
    /\ loadState # "failed"
    /\ loadCalls < MaxCalls
    /\ Len(technologies) > 0
    /\ loadCalls' = loadCalls + 1
    /\ UNCHANGED <<technologies, categories, files, reads, loadState, runs, analyze, call, rest,
                   page, collector, scriptUrls, xhrUrls, failAt, runVars>>

\* loadWappalyzerData reads categories.json and every shard; the function is
\* synchronous, so a call is one step.  A readFileSync that throws counts as
\* a read.
LoadRead ==
    /\ loadState # "failed"
    /\ loadCalls < MaxCalls
    /\ Len(technologies) = 0
    /\ Readable(files.categories)
    /\ categories' = files.categories.data
    /\ technologies' = loadShards(files.shards)
    /\ reads' = reads + 1 + Len(files.shards)
    /\ loadState' = "loaded"
    /\ loadCalls' = loadCalls + 1
    /\ UNCHANGED <<files, runs, analyze, call, rest, page, collector, scriptUrls, xhrUrls, failAt, runVars>>

\* categories.json cannot be read: the call throws before anything is set.
LoadFail ==
    /\ loadState # "failed"
    /\ loadCalls < MaxCalls
    /\ Len(technologies) = 0
    /\ ~Readable(files.categories)
    /\ reads' = reads + 1
    /\ loadState' = "failed"
    /\ loadCalls' = loadCalls + 1
    /\ UNCHANGED <<technologies, categories, files, runs, analyze, call, rest,
                   page, collector, scriptUrls, xhrUrls, failAt, runVars>>

NextLoad ==
    \/ LoadSkip
    \/ LoadRead
    \/ LoadFail

LoadSpec == InitLoad /\ [][NextLoad]_vars

\* One call of detectTechnologies in flight.  step: 0 not called, k in 1..5
\* suspended at the awaited call number k of collectPageData, 6 suspended at
\* await collectPageData, 7 returned.  overlapped: the call ran a step while
\* another call was suspended.
NewRun(pg, coll, sUrls, xUrls, fail) ==
    [page |-> pg, collector |-> coll, scriptUrls |-> sUrls, xhrUrls |-> xUrls,
     failAt |-> fail, data |-> NoData, step |-> 0, detected |-> <<>>,
     result |-> Pending, overlapped |-> FALSE]

Suspended(rs, r) == \E o \in DOMAIN rs : o # r /\ rs[o].step \in 1..6

\* Two calls on different pages over one store.
InitConc ==
    /\ technologies \in StoresOf(2, ConcRules)
    /\ categories = Categories
    /\ \E f1, f2 \in {0, 3}, first \in {FullPage, EmptyValuesPage} :
          runs = << NewRun(first, [responseHeaders |-> ("x-powered-by" :> "lib-3")],
                           <<"lib-3">>, <<>>, f1),
                    NewRun(IF first = FullPage THEN EmptyValuesPage ELSE FullPage,
                           [responseHeaders |-> EmptyMap], <<"lib-4", "lib">>,
                           <<"gen-6.1">>, f2) >>
    /\ files = [categories |-> File(Categories), shards |-> <<File(technologies)>>]
    /\ reads = 2
    /\ loadCalls = 1
    /\ loadState = "loaded"
    /\ NoRun
    /\ call = NoCall
    /\ response = NoResponse
    /\ fetch = NoFetch
    /\ analyze = NoRequest

\* detectTechnologies is called: it runs up to the first await of
\* collectPageData, with data.headers set.
Call(r) ==
    /\ runs[r].step = 0
    /\ runs' = [runs EXCEPT ![r].data = [NoData EXCEPT !.headers = runs[r].collector.responseHeaders],
                            ![r].step = 1,
                            ![r].overlapped = Suspended(runs, r)]
    /\ UNCHANGED <<technologies, categories, loaderVars, analyze, call, rest,
                   page, collector, scriptUrls, xhrUrls, failAt, runVars>>

\* The awaited call a run is suspended at settles: the field is filled and
\* the next call is made, or the call rejected and the catch of
\* collectPageData returns what was filled.
Resume(r) ==
    /\ runs[r].step \in 1..5
    /\ LET k == runs[r].step
       IN  runs' = [runs EXCEPT
                      ![r].data = IF runs[r].failAt = k THEN @
                                  ELSE CollectField(@, runs[r].page, technologies, k),
                      ![r].step = IF runs[r].failAt = k \/ k = 5 THEN 6 ELSE k + 1,
                      ![r].overlapped = @ \/ Suspended(runs, r)]
    /\ UNCHANGED <<technologies, categories, loaderVars, analyze, call, rest,
                   page, collector, scriptUrls, xhrUrls, failAt, runVars>>

\* await collectPageData resumes: the rest of detectTechnologies runs without
\* another await.
Finish(r) ==
    /\ runs[r].step = 6
    /\ LET f == finishRun(technologies, categories, runs[r].data, runs[r].scriptUrls,
                          runs[r].xhrUrls, newDetected(runs, r))
       IN  runs' = [runs EXCEPT ![r].detected = f.detected,
                                ![r].result = f.result,
                                ![r].step = 7,
                                ![r].overlapped = @ \/ Suspended(runs, r)]
    /\ UNCHANGED <<technologies, categories, loaderVars, analyze, call, rest,
                   page, collector, scriptUrls, xhrUrls, failAt, runVars>>

\* A request POST /analyze has arrived, with the homepage of x.com for url
\* or without url.
InitAnalyze ==
    /\ \E env \in {0, 1, 2}, useAI \in BOOLEAN, links \in LinkCases, sitemap \in SitemapCases,
          hasUrl \in BOOLEAN :
          analyze = [NoRequest EXCEPT !.phase = "received", !.env = env, !.useAI = useAI,
                                      !.targetUrl = Home, !.links = links,
                                      !.sitemapUrls = sitemap, !.hasUrl = hasUrl]
    /\ technologies = <<>>
    /\ categories = Categories
    /\ files = [categories |-> File(Categories), shards |-> <<>>]
    /\ reads = 1
    /\ loadCalls = 1
    /\ loadState = "loaded"
    /\ runs = <<>>
    /\ NoRun
    /\ call = NoCall
    /\ response = NoResponse
    /\ fetch = NoFetch

\* if (!targetUrl) return res.status(400).json(...); otherwise the try block
\* is entered and fetchSitemapUrls is awaited.
Validate ==
    /\ analyze.phase = "received"
    /\ analyze' = IF analyze.hasUrl THEN [analyze EXCEPT !.phase = "sitemap"]
                  ELSE [Send(analyze, 400) EXCEPT !.phase = "rejected"]
    /\ UNCHANGED <<technologies, categories, loaderVars, runs, call, rest,
                   page, collector, scriptUrls, xhrUrls, failAt, runVars>>

\* Step 0: fetchSitemapUrls returns or throws; then launchBrowser is awaited.
FetchSitemap ==
    /\ analyze.phase = "sitemap"
    /\ \/ analyze' = [analyze EXCEPT !.phase = "launch"]
       \/ analyze' = Thrown(analyze, "Invalid URL")
    /\ UNCHANGED <<technologies, categories, loaderVars, runs, call, rest,
                   page, collector, scriptUrls, xhrUrls, failAt, runVars>>

\* browser = await launchBrowser()
LaunchBrowser ==
    /\ analyze.phase = "launch"
    /\ \/ analyze' = [analyze EXCEPT !.phase = "context", !.browser = "open"]
       \/ \E message \in Messages : analyze' = Thrown(analyze, message)
    /\ UNCHANGED <<technologies, categories, loaderVars, runs, call, rest,
                   page, collector, scriptUrls, xhrUrls, failAt, runVars>>

\* context = await createContext(browser); page = await context.newPage()
CreateContext ==
    /\ analyze.phase = "context"
    /\ \/ analyze' = [analyze EXCEPT !.phase = "start", !.context = "open"]
       \/ \E message \in Messages :
             \/ analyze' = Thrown(analyze, message)
             \/ analyze' = Thrown([analyze EXCEPT !.context = "open"], message)
    /\ UNCHANGED <<technologies, categories, loaderVars, runs, call, rest,
                   page, collector, scriptUrls, xhrUrls, failAt, runVars>>

\* Step 1: navigateTo(page, targetUrl); a failure is thrown to the catch.
NavigateHome ==
    /\ analyze.phase = "start"
    /\ \E success \in BOOLEAN :
          analyze' = [analyze EXCEPT !.navigations = 1,
                                     !.phase = IF success THEN "discover" ELSE "failed",
                                     !.error = IF success THEN @ ELSE "Failed to load homepage"]
    /\ UNCHANGED <<technologies, categories, loaderVars, runs, call, rest,
                   page, collector, scriptUrls, xhrUrls, failAt, runVars>>

\* Step 3: getPagesToVisit(links, targetUrl, sitemapData.urls)
Discover ==
    /\ analyze.phase = "discover"
    /\ \E answer \in AiAnswers :
          analyze' = [analyze EXCEPT
                        !.pagesToVisit = getPagesToVisit(analyze.links, analyze.targetUrl,
                                                         analyze.sitemapUrls,
                                                         maxPagesToVisit(analyze.env), answer),
                        !.phase = "homepage"]
    /\ UNCHANGED <<technologies, categories, loaderVars, runs, call, rest,
                   page, collector, scriptUrls, xhrUrls, failAt, runVars>>

\* Step 4, first part: extractIntelligence on the homepage if useAI.
AnalyseHome ==
    /\ analyze.phase = "homepage"
    /\ analyze' = [analyze EXCEPT !.analysed = IF analyze.useAI THEN 1 ELSE 0,
                                  !.phase = "visit"]
    /\ UNCHANGED <<technologies, categories, loaderVars, runs, call, rest,
                   page, collector, scriptUrls, xhrUrls, failAt, runVars>>

\* One iteration of for (const pageUrl of pagesToVisit): the navigation
\* succeeds, fails (continue), or a call of the iteration throws.
VisitPage ==
    /\ analyze.phase = "visit"
    /\ analyze.next <= Len(analyze.pagesToVisit)
    /\ \E outcome \in {"ok", "not loaded", "throws"} :
          analyze' = [analyze EXCEPT
                        !.navigations = @ + 1,
                        !.analysed = IF outcome = "ok" /\ analyze.useAI THEN @ + 1 ELSE @,
                        !.next = @ + 1,
                        !.phase = IF outcome = "throws" THEN "failed" ELSE @,
                        !.error = IF outcome = "throws" THEN "navigation timeout" ELSE @]
    /\ UNCHANGED <<technologies, categories, loaderVars, runs, call, rest,
                   page, collector, scriptUrls, xhrUrls, failAt, runVars>>

\* Steps 5 and 6: the response is sent.
Respond ==
    /\ analyze.phase = "visit"
    /\ analyze.next > Len(analyze.pagesToVisit)
    /\ analyze' = [Send(analyze, 200) EXCEPT !.phase = "done"]
    /\ UNCHANGED <<technologies, categories, loaderVars, runs, call, rest,
                   page, collector, scriptUrls, xhrUrls, failAt, runVars>>

\* An awaited call of steps 2 to 4 on the homepage rejects.
ThrowOnHomepage ==
    /\ analyze.phase \in {"discover", "homepage"}
    /\ \E message \in Messages : analyze' = Thrown(analyze, message)
    /\ UNCHANGED <<technologies, categories, loaderVars, runs, call, rest,
                   page, collector, scriptUrls, xhrUrls, failAt, runVars>>

\* catch (error): the error response is sent.
Catch ==
    /\ analyze.phase = "failed"
    /\ analyze' = [Send(analyze, statusCode(analyze.error)) EXCEPT !.phase = "caught"]
    /\ UNCHANGED <<technologies, categories, loaderVars, runs, call, rest,
                   page, collector, scriptUrls, xhrUrls, failAt, runVars>>

\* finally: await closeBrowser(context, browser)
Finally ==
    /\ analyze.phase \in {"done", "caught"}
    /\ analyze' = [closeBrowser(analyze) EXCEPT !.phase = "closed"]
    /\ UNCHANGED <<technologies, categories, loaderVars, runs, call, rest,
                   page, collector, scriptUrls, xhrUrls, failAt, runVars>>

NextAnalyze ==
    \/ Validate
    \/ FetchSitemap
    \/ LaunchBrowser
    \/ CreateContext
    \/ NavigateHome
    \/ Discover
    \/ AnalyseHome
    \/ VisitPage
    \/ ThrowOnHomepage
    \/ Respond
    \/ Catch
    \/ Finally

AnalyzeSpec == InitAnalyze /\ [][NextAnalyze]_vars

NextConc ==
    \E r \in DOMAIN runs :
        \/ Call(r)
        \/ Resume(r)
        \/ Finish(r)

ConcSpec == InitConc /\ [][NextConc]_vars

\* setupWappalyzerDetection has returned the collector with an empty Map.
InitCollector ==
    /\ NoRun
    /\ technologies = <<>>
    /\ categories = Categories
    /\ files = [categories |-> File(Categories), shards |-> <<>>]
    /\ reads = 1
    /\ loadCalls = 1
    /\ loadState = "loaded"
    /\ runs = <<>>
    /\ analyze = NoRequest
    /\ call = NoCall
    /\ response = NoResponse
    /\ fetch = NoFetch

\* The page emits 'response': the listener runs to its end.
OnResponse ==
    /\ \E resp \in Responses :
          /\ response' = resp
          /\ collector' = [collector EXCEPT
                             !.responseHeaders = onResponse(collector.responseHeaders, resp)]
    /\ UNCHANGED <<technologies, categories, loaderVars, runs, analyze, call, fetch,
                   page, scriptUrls, xhrUrls, failAt, runVars>>

\* data.headers = Object.fromEntries(collector.responseHeaders || new Map())
CollectHeaders ==
    /\ pc = "idle"
    /\ pageData' = [pageData EXCEPT !.headers = collector.responseHeaders]
    /\ pc' = "headers"
    /\ UNCHANGED <<inputs, detected, idx, changed, pos, result>>

NextCollector ==
    \/ OnResponse
    \/ CollectHeaders

CollectorSpec == InitCollector /\ [][NextCollector]_vars

\* fetchLinkedInPage has been called and waits for its first fetch.
InitFetch ==
    /\ NoRun
    /\ technologies = <<>>
    /\ categories = Categories
    /\ files = [categories |-> File(Categories), shards |-> <<>>]
    /\ reads = 1
    /\ loadCalls = 1
    /\ loadState = "loaded"
    /\ runs = <<>>
    /\ analyze = NoRequest
    /\ call = NoCall
    /\ response = NoResponse
    /\ fetch = [NoFetch EXCEPT !.phase = "loop"]

\* The awaited fetch of the running iteration settles.
Attempt ==
    /\ fetch.phase = "loop"
    /\ \E o \in FetchOutcomes : fetch' = settle(fetch, o)
    /\ UNCHANGED <<technologies, categories, loaderVars, runs, analyze, call, response,
                   page, collector, scriptUrls, xhrUrls, failAt, runVars>>

NextFetch == Attempt

FetchSpec == InitFetch /\ [][NextFetch]_vars

\* --------------------------------------------------------------- claims

Range(seq) == {seq[j] : j \in DOMAIN seq}

Names(seq) == {seq[j].name : j \in DOMAIN seq}

\* What the matcher computes for the technology at place j of the store.
Direct(j) == Evaluate(technologies[j].rule, pageData, scriptUrls, xhrUrls)

DirectNames == {technologies[j].name : j \in {k \in DOMAIN technologies : Direct(k).total > 0}}

Output == result.detectedTechnologies

\* C1: every record of the returned detectedTechnologies list has a
\* confidence in the range [0,100].
C1_ConfidenceInRange ==
    \A j \in DOMAIN Output : Output[j].confidence >= 0 /\ Output[j].confidence <= 100

\* A technology whose signals sum to more than 100 is returned at 100.
C1_Witness ==
    /\ pc = "returned"
    /\ \E j \in DOMAIN technologies :
          /\ Direct(j).total > 100
          /\ \E d \in Range(Output) : d.name = technologies[j].name /\ d.confidence = 100

\* C2: detectedTechnologies holds exactly the records of the result map with
\* a confidence of at least 50, each once, and none below 50; when no record
\* reaches 50 the list is empty and cms is null.
C2_FloorFilter ==
    pc = "returned" =>
        /\ Range(Output) = {d \in Range(detected) : d.confidence >= 50}
        /\ Len(Output) = Cardinality({j \in DOMAIN detected : detected[j].confidence >= 50})
        /\ \A d \in Range(Output) : ~(d.confidence < 50)
        /\ ((\A d \in Range(detected) : d.confidence < 50)
               => Output = <<>> /\ result.cms = Null)

\* The result map holds a record at 50, which is returned, and one at 49,
\* which is not.
C2_Witness ==
    /\ pc = "returned"
    /\ \E d \in Range(detected) : d.confidence = 50 /\ d \in Range(Output)
    /\ \E d \in Range(detected) : d.confidence = 49 /\ d \notin Range(Output)

\* The places in the result map of the returned records that carry the CMS
\* category.
CmsPlaces ==
    {j \in DOMAIN detected :
        /\ detected[j] \in Range(Output)
        /\ \E c \in DOMAIN detected[j].categories : detected[j].categories[c].id = 1}

\* C3: cms is the name of the highest-confidence returned record that carries
\* category 1, the one detected first among equals, and null when no returned
\* record carries it.
C3_CmsSelection ==
    pc = "returned" =>
        IF CmsPlaces = {} THEN result.cms = Null /\ result.cmsDetails = <<>>
        ELSE \E j \in CmsPlaces :
                /\ \A k \in CmsPlaces :
                      \/ detected[k].confidence < detected[j].confidence
                      \/ (detected[k].confidence = detected[j].confidence /\ j <= k)
                /\ result.cms = detected[j].name

\* Two returned CMS records tie at the highest confidence and cms names the
\* one detected first.
C3_Witness ==
    /\ pc = "returned"
    /\ \E j, k \in CmsPlaces :
          /\ j < k
          /\ detected[j].confidence = detected[k].confidence
          /\ result.cms = detected[j].name
          /\ \A m \in CmsPlaces : detected[m].confidence <= detected[j].confidence

\* C4: detectedTechnologies is ordered by confidence descending, equal
\* confidences in the order of insertion into the result map, which is the
\* direct detections in store order followed by the implied technologies.
C4_Ordering ==
    /\ pc = "returned" =>
          \A i, j \in DOMAIN Output :
             i < j =>
                /\ Output[i].confidence >= Output[j].confidence
                /\ Output[i].confidence = Output[j].confidence
                      => IndexOf(detected, Output[i].name) < IndexOf(detected, Output[j].name)
    /\ pc \in {"implies", "rank", "returned"} =>
          LET direct == DirectNames
          IN  \A i, j \in DOMAIN detected :
                 i < j =>
                    /\ detected[j].name \in direct => detected[i].name \in direct
                    /\ (detected[i].name \in direct /\ detected[j].name \in direct)
                          => StoreIndex(technologies, detected[i].name)
                                < StoreIndex(technologies, detected[j].name)

\* Two records tie, and an implied technology is returned before a directly
\* detected one of lower confidence.
C4_Witness ==
    /\ pc = "returned"
    /\ \E i, j \in DOMAIN Output :
          i < j /\ Output[i].confidence = Output[j].confidence
    /\ LET direct == DirectNames
       IN  \E i, j \in DOMAIN Output :
              /\ i < j
              /\ Output[i].name \notin direct
              /\ Output[j].name \in direct

\* The store has the cycle A implies B, B implies A.
HasCycleAB ==
    /\ Len(technologies) >= 2
    /\ \E e \in Range(technologies[1].rule.implies) : e.isString /\ e.name = "B"
    /\ \E e \in Range(technologies[2].rule.implies) : e.isString /\ e.name = "A"

Once(det, name) == Cardinality({j \in DOMAIN det : det[j].name = name}) = 1

\* The names the closure may still add, the flag and the entries left in the
\* pass, as one number: every step of the closure lowers it.
ClosureVariant ==
    LET N == Len(technologies) + Cardinality(ObjectPrototypeKeys)
        addable == {n \in Names(technologies) \cup ObjectPrototypeKeys : ~Has(detected, n)}
    IN  Cardinality(addable) * 2 * (N + 1)
          + (IF changed THEN N + 1 ELSE 0)
          + (Len(detected) + 1 - pos)

\* C5: the implication closure terminates, also on a store with the cycle A
\* implies B, B implies A: every step of the loop lowers a natural number
\* bounded by the store size, so the loop cannot run forever; no name is in
\* the result map twice, and with A detected both A and B are in it exactly
\* once.
C5_ClosureTerminates ==
    /\ [][(pc = "implies" /\ pc' = "implies") => ClosureVariant' < ClosureVariant]_vars
    /\ [](pc = "implies" => ClosureVariant >= 0)
    /\ [](\A i, j \in DOMAIN detected : detected[i].name = detected[j].name => i = j)
    /\ []((pc \in {"rank", "returned"} /\ HasCycleAB /\ "A" \in DirectNames)
            => Once(detected, "A") /\ Once(detected, "B"))

\* A run on a cyclic store in which only A matched a signal has ended with
\* both A and B in the result map.
C5_Witness ==
    /\ pc = "returned"
    /\ HasCycleAB
    /\ DirectNames = {"A"}
    /\ Once(detected, "A") /\ Once(detected, "B")

\* C6: the closure only adds technologies that exist in the store, so a name
\* absent from the store is in no record, also when a detected technology
\* names it in implies.
C6_OnlyStoreNames ==
    /\ Names(detected) \subseteq Names(technologies)
    /\ Names(Output) \subseteq Names(technologies)

\* The part of C6 the code keeps: an implied name that is neither in the
\* store nor inherited by the store object is never added.
C6_UnknownNameNeverAdded ==
    Names(detected) \subseteq Names(technologies) \cup ObjectPrototypeKeys

\* C7: the resolver is idempotent: run a second time on the result map of a
\* first run it adds no technology and changes no record.
C7_ResolverIdempotent ==
    pc = "resolved" =>
        LET again == Resolve(detected, technologies, categories)
        IN  ~again.threw /\ again.det = detected

\* The first run has added at least two technologies, one of them implied by
\* an implied one, and the second run is over.
C7_Witness ==
    /\ pc = "resolved twice"
    /\ Cardinality(Names(detected) \ DirectNames) >= 2
    /\ \E d \in Range(detected) :
          /\ d.name \notin DirectNames
          /\ \A j \in DOMAIN technologies :
                technologies[j].name \in DirectNames
                   => \A e \in Range(technologies[j].rule.implies) : e.name # d.name

\* The loop of detectTechnologies, taken step by step, ends where the
\* resolver ends (checked under Spec).
LoopAgreesWithResolve ==
    pc = "implies" =>
        LET here == [det |-> detected, pos |-> pos, changed |-> changed,
                     threw |-> FALSE, done |-> FALSE]
            end == RunLoop(here, technologies, categories)
        IN  end.threw \/ Resolve(end.det, technologies, categories).det = end.det

\* The record the result map holds for a name.
RecordOf(name) == detected[IndexOf(detected, name)]

\* The technology at place j of the store has been evaluated and recorded.
Recorded(j) == pc # "collect" /\ j < idx /\ Direct(j).total > 0

\* C8 as stated: the first non-null version a signal evaluation produced for
\* the technology is the one recorded, later ones do not override it.
C8_FirstVersionKept ==
    \A j \in DOMAIN technologies :
        (Recorded(j) /\ Direct(j).versions # <<>>)
           => RecordOf(technologies[j].name).version = Direct(j).versions[1]

\* C8 as amended: the last non-null version a signal evaluation produced for
\* the technology, in the order scriptSrc, xhr, meta, js, html, headers,
\* cookies, dom, is the one recorded; null when none produced a version.
C8_LastVersionKept ==
    \A j \in DOMAIN technologies :
        (pc # "collect" /\ j < idx) =>
           LET acc == Direct(j)
           IN  acc.total > 0 =>
                  RecordOf(technologies[j].name).version =
                     IF acc.versions = <<>> THEN Null
                     ELSE acc.versions[Len(acc.versions)]

\* Two signal evaluations of one technology produced different versions and
\* the later one is recorded.
C8_Witness ==
    \E j \in DOMAIN technologies :
        /\ Recorded(j)
        /\ Len(Direct(j).versions) >= 2
        /\ Direct(j).versions[1] # Direct(j).versions[Len(Direct(j).versions)]
        /\ RecordOf(technologies[j].name).version
              = Direct(j).versions[Len(Direct(j).versions)]

\* The signal key of a rule is in the snapshot.
KeyPresent(kind, k) ==
    CASE kind = "meta" -> ToLower(k) \in DOMAIN pageData.meta
      [] kind = "js" -> k \in DOMAIN pageData.jsGlobals
      [] kind = "headers" -> ToLower(k) \in DOMAIN pageData.headers
      [] kind = "cookies" ->
            \E c \in Range(pageData.cookies) : ToLower(c.name) = ToLower(k)

\* The rule has one signature only, of this kind, with the empty pattern.
SoleEmptySignature(rule, kind) ==
    /\ Len(rule[kind]) = 1
    /\ rule[kind][1].p = One(EmptyString)
    /\ rule = [NoRule EXCEPT ![kind] = rule[kind]]

\* C9: a technology whose only rule is a meta, js, headers or cookies
\* signature with the empty pattern is detected at confidence 100 iff the
\* key is present in the snapshot, whatever its value.
C9_EmptyPatternIsPresence ==
    \A j \in DOMAIN technologies : \A kind \in {"meta", "js", "headers", "cookies"} :
        (pc # "collect" /\ j < idx /\ SoleEmptySignature(technologies[j].rule, kind))
           => IF KeyPresent(kind, technologies[j].rule[kind][1].k)
              THEN /\ Has(detected, technologies[j].name)
                   /\ RecordOf(technologies[j].name).confidence = 100
              ELSE ~Has(detected, technologies[j].name)

\* What C9 holds of: js and cookies signatures, which test the presence of
\* the key, the value left aside.
C9_PresenceForJsAndCookies ==
    \A j \in DOMAIN technologies : \A kind \in {"js", "cookies"} :
        (pc # "collect" /\ j < idx /\ SoleEmptySignature(technologies[j].rule, kind))
           => IF KeyPresent(kind, technologies[j].rule[kind][1].k)
              THEN /\ Has(detected, technologies[j].name)
                   /\ RecordOf(technologies[j].name).confidence = 100
              ELSE ~Has(detected, technologies[j].name)

\* detectTechnologies is over.
Returned == pc \in {"returned", "caught"}

StepsAgreeWithFunction ==
    Returned =>
        result = detectTechnologies(technologies, categories, page, collector,
                                    scriptUrls, xhrUrls, failAt)

\* A pattern field holds a regex body that does not compile.
SigBad(sig) == \E p \in Range(sig.pats) : p.re \in Uncompilable

EntriesBad(entries) == \E e \in Range(entries) : SigBad(e.p)

\* The rule is malformed: an uncompilable pattern, an implies entry that is
\* no string, or a null check set of a dom selector.
Malformed(rule) ==
    \/ SigBad(rule.scriptSrc) \/ SigBad(rule.xhr) \/ SigBad(rule.html)
    \/ EntriesBad(rule.meta) \/ EntriesBad(rule.js)
    \/ EntriesBad(rule.headers) \/ EntriesBad(rule.cookies)
    \/ \E e \in Range(rule.dom) :
          e.checks.isNull \/ SigBad(e.checks.text) \/ EntriesBad(e.checks.attributes)
    \/ \E e \in Range(rule.implies) : ~e.isString

\* The store without the technology at place j.
Without(store, j) == SubSeq(store, 1, j - 1) \o SubSeq(store, j + 1, Len(store))

\* The returned records of the technologies other than `name`.
OthersOf(res, name) == SelectSeq(res.detectedTechnologies, LAMBDA d : d.name # name)

\* C11: a malformed rule never aborts a run: every other technology is
\* returned exactly as the run on the store without the malformed rule
\* returns it.
C11_MalformedRuleSkipped ==
    Returned =>
        \A j \in DOMAIN technologies :
            Malformed(technologies[j].rule) =>
                OthersOf(result, technologies[j].name)
                  = OthersOf(detectTechnologies(Without(technologies, j), categories, page,
                                                collector, scriptUrls, xhrUrls, failAt),
                             technologies[j].name)

\* A pattern field without its alternatives that do not compile.
Strip(sig) ==
    [arr |-> sig.arr, pats |-> SelectSeq(sig.pats, LAMBDA p : p.re \notin Uncompilable)]

StripEntries(entries) ==
    [i \in DOMAIN entries |-> [entries[i] EXCEPT !.p = Strip(entries[i].p)]]

\* The rule without the uncompilable alternatives of its scriptSrc, xhr,
\* html, meta, js, headers and cookies patterns.
StripRule(rule) ==
    [rule EXCEPT !.scriptSrc = Strip(rule.scriptSrc), !.xhr = Strip(rule.xhr),
                 !.html = Strip(rule.html), !.meta = StripEntries(rule.meta),
                 !.js = StripEntries(rule.js), !.headers = StripEntries(rule.headers),
                 !.cookies = StripEntries(rule.cookies)]

\* The rule throws: an implies entry that is no string or a null check set.
Throwing(rule) ==
    \/ \E e \in Range(rule.dom) : e.checks.isNull
    \/ \E e \in Range(rule.implies) : ~e.isString

\* C12: a raw pattern whose regex body does not compile yields no compiled
\* pattern and never matches: the technology gets the confidence and the
\* version it gets without that alternative, the other alternatives of the
\* list and the other signals are evaluated, and no error is raised.
C12_UncompilableNeverMatches ==
    /\ \A re \in Uncompilable :
          /\ ~parsePattern(Plain(re)).ok
          /\ ~parsePattern(WithVerConf(re, 1, 40)).ok
    /\ \A j \in DOMAIN technologies :
          (pc # "collect" /\ j < idx) =>
              LET acc == Direct(j)
                  without == Evaluate(StripRule(technologies[j].rule), pageData,
                                      scriptUrls, xhrUrls)
              IN  /\ acc.total = without.total
                  /\ acc.version = without.version
                  /\ without.total > 0 => Has(detected, technologies[j].name)
    /\ pc = "caught" => \E j \in DOMAIN technologies : Throwing(technologies[j].rule)

\* A technology whose html list starts with an uncompilable alternative has
\* been recorded through a later alternative of the list, and the run has
\* returned it.
C12_Witness ==
    /\ pc = "returned"
    /\ \E j \in DOMAIN technologies :
          LET html == technologies[j].rule.html
          IN  /\ Len(html.pats) >= 2
              /\ html.pats[1].re \in Uncompilable
              /\ testPatterns(Many(ToList(html)), pageData.html).matched
              /\ technologies[j].name \in Names(Output)

C13_NoOpWhenStoreNotEmpty ==
    [][Len(technologies) > 0
          => (reads' = reads /\ technologies' = technologies /\ categories' = categories)]_vars

\* The shards that could be read.
ReadableShards == {i \in DOMAIN files.shards : Readable(files.shards[i])}

\* The places (shard, entry) where the shards that could be read define a
\* name, and the last of them.
Definitions(name) ==
    UNION {{<<i, e>> : e \in {k \in DOMAIN files.shards[i].data :
                                  files.shards[i].data[k].name = name}}
              : i \in ReadableShards}

LastDefinition(name) ==
    CHOOSE d \in Definitions(name) :
        \A o \in Definitions(name) : o[1] < d[1] \/ (o[1] = d[1] /\ o[2] <= d[2])

\* C14: a shard file that is missing or unreadable is skipped without an
\* error: the load completes, and the technology mapping holds exactly the
\* names of the shards that could be read, each once, with the rule of its
\* last definition.
C14_UnreadableShardsSkipped ==
    /\ (loadCalls >= 1 /\ Readable(files.categories)) => loadState = "loaded"
    /\ loadState = "loaded" =>
          /\ Names(technologies)
                = UNION {Names(files.shards[i].data) : i \in ReadableShards}
          /\ Cardinality(Names(technologies)) = Len(technologies)
          /\ \A j \in DOMAIN technologies :
                LET d == LastDefinition(technologies[j].name)
                IN  technologies[j].rule = files.shards[d[1]].data[d[2]].rule

\* A load has completed over a missing shard and an unreadable shard, and a
\* shard behind one of them has given the mapping its technologies.
C14_Witness ==
    /\ loadState = "loaded"
    /\ \E i \in DOMAIN files.shards : ~files.shards[i].exists
    /\ \E i \in DOMAIN files.shards : files.shards[i].exists /\ ~files.shards[i].valid
    /\ \E i, k \in DOMAIN files.shards :
          /\ i < k
          /\ ~Readable(files.shards[i])
          /\ Readable(files.shards[k])
          /\ Names(files.shards[k].data) # {}
          /\ Names(files.shards[k].data) \subseteq Names(technologies)

\* C15: detection runs share no mutable state: however two calls of
\* detectTechnologies on different pages interleave at their awaits, each
\* returns what it returns when run alone, and no step of a run changes the
\* technology or the category mapping.
C15_RunsIndependent ==
    /\ [](\A r \in DOMAIN runs :
            runs[r].step = 7 =>
               runs[r].result = detectTechnologies(technologies, categories, runs[r].page,
                                                   runs[r].collector, runs[r].scriptUrls,
                                                   runs[r].xhrUrls, runs[r].failAt))
    /\ [][technologies' = technologies /\ categories' = categories]_vars

\* Two calls that overlapped have both returned, with different results that
\* are not empty.
C15_Witness ==
    /\ \A r \in DOMAIN runs : runs[r].step = 7 /\ runs[r].overlapped
    /\ Len(runs) = 2
    /\ runs[1].result # runs[2].result
    /\ \A r \in DOMAIN runs : runs[r].result.detectedTechnologies # <<>>

\* The name and the confidence of each returned record, in order.
Summary(seq) == [j \in DOMAIN seq |-> <<seq[j].name, seq[j].confidence>>]

\* C16: a technology B of the store that is not detected directly and that a
\* detected technology A implies is added with the confidence n of the
\* implying token, 100 without a suffix (stored capped at 100), and A keeps
\* its own confidence; WordPress detected at 90 and implying PHP at 50 gives
\* WordPress at 90, PHP at 50 and cms WordPress.
C16_ImpliedConfidence ==
    /\ pc \in {"rank", "returned"} =>
          /\ \A d \in Range(detected) :
                d.name \notin DirectNames =>
                   \E t \in Range(detected) :
                      \E e \in Range(StoreGet(technologies, t.name).implies) :
                         /\ e.isString /\ e.name = d.name
                         /\ d.confidence = Min(ImpliedConfidence(e.opts, 1, 100), 100)
          /\ \A t \in Range(detected) :
                \A e \in Range(StoreGet(technologies, t.name).implies) :
                   (e.isString /\ e.name \in Names(technologies)) => Has(detected, e.name)
          /\ \A j \in DOMAIN technologies :
                Direct(j).total > 0 =>
                   RecordOf(technologies[j].name).confidence = Min(Direct(j).total, 100)
    /\ (pc = "returned" /\ technologies = WordPressStore) =>
          /\ Summary(Output) = << <<"WordPress", 90>>, <<"PHP", 50>> >>
          /\ result.cms = "WordPress"

\* The WordPress scenario has returned, PHP not being detected directly.
C16_Witness ==
    /\ pc = "returned"
    /\ technologies = WordPressStore
    /\ DirectNames = {"WordPress"}
    /\ \E d \in Range(Output) : d.name = "PHP" /\ d.confidence = 50
    /\ \E d \in Range(Output) : d.name = "WordPress" /\ d.confidence = 90
    /\ result.cms = "WordPress"

\* The capture group the last version:\<n> part of a raw pattern names,
\* NoGroup without such a part.
VersionGroupOf(p) ==
    LET at == {i \in DOMAIN p.opts : p.opts[i].k = "version"}
    IN  IF at = {} THEN NoGroup
        ELSE p.opts[CHOOSE i \in at : \A k \in at : k <= i].v

\* The text of capture group n of a match; null for no n, for a group that
\* did not participate and for a group that matched the empty text.
GroupText(groups, n) ==
    IF n = NoGroup \/ n + 1 \notin DOMAIN groups THEN Null
    ELSE IF groups[n + 1] \in {Undefined, ""} THEN Null
    ELSE groups[n + 1]

\* The raw patterns of the URL and html signatures of the store, with the
\* values they are tested on.
UrlAndHtmlTests ==
    UNION { ({<<p, u>> : p \in Range(t.rule.scriptSrc.pats), u \in Range(scriptUrls)}
             \cup {<<p, u>> : p \in Range(t.rule.xhr.pats), u \in Range(xhrUrls)}
             \cup {<<p, u>> : p \in Range(t.rule.html.pats), u \in {pageData.html}})
            : t \in Range(technologies) }

\* C17: when a pattern with version:\<n> matches the tested value, the
\* extracted version is the text of capture group n of the match, and null
\* when the group did not participate or there is no version part; the
\* jQuery scriptSrc rule on the URL of jquery-3.6.0.min.js gives the record
\* jQuery with version 3.6.0 and confidence 100.
C17_VersionFromCaptureGroup ==
    /\ \A test \in UrlAndHtmlTests :
          LET p == test[1]
              m == RegexMatch(p.re, test[2])
              res == testPatterns(One(p), test[2])
          IN  (m.matched /\ p.re \notin Uncompilable /\ Truthy(test[2]) /\ ~IsEmptyString(p))
                 => /\ res.matched
                    /\ res.version = GroupText(m.groups, VersionGroupOf(p))
    /\ (technologies = JQueryStore /\ pc \in {"rank", "returned"}) =>
          /\ Len(detected) = 1
          /\ detected[1].name = "jQuery"
          /\ detected[1].version = "3.6.0"
          /\ detected[1].confidence = 100
    /\ (technologies = JQueryStore /\ pc = "returned") => Output = detected

\* The jQuery scenario has returned its record.
C17_Witness ==
    /\ pc = "returned"
    /\ technologies = JQueryStore
    /\ scriptUrls = <<JQueryUrl>>
    /\ Len(Output) = 1
    /\ Output[1].name = "jQuery" /\ Output[1].version = "3.6.0" /\ Output[1].confidence = 100

\* C18: getPagesToVisit returns at most maxPagesToVisit URLs (4 by default)
\* without duplicates, so a request navigates to and analyses at most
\* 1 + maxPagesToVisit pages, the homepage and 4 others by default.
C18_PagesBounded ==
    LET maxPages == maxPagesToVisit(analyze.env)
        pages == analyze.pagesToVisit
    IN  /\ Len(pages) <= maxPages
        /\ \A i, j \in DOMAIN pages : pages[i] = pages[j] => i = j
        /\ analyze.navigations <= 1 + maxPages
        /\ analyze.analysed <= 1 + maxPages
        /\ analyze.env = 0 =>
              /\ Len(pages) <= 4
              /\ analyze.navigations <= 5
              /\ analyze.analysed <= 5
        /\ analyze.phase = "done" => analyze.navigations = 1 + Len(pages)

\* A request with the default setting whose sitemap holds more than four
\* matching URLs has ended after five navigations and five analyses.
C18_Witness ==
    /\ analyze.phase = "done"
    /\ analyze.env = 0
    /\ Len(findPatternMatches(filterSameDomain(analyze.sitemapUrls, analyze.targetUrl))) > 4
    /\ analyze.navigations = 5
    /\ analyze.analysed = 5

\* The record of the called name before and after the call of addDetection.
Before == call.before[IndexOf(call.before, call.name)]
After == RecordOf(call.name)

\* The step is one of the steps of a detection run.
RunStep == pc' # "strengthened"

Contributions(j) ==
    LET tech == technologies[j].rule
    IN  << CheckUrls(tech.scriptSrc, scriptUrls, ZeroAcc).total,
           CheckUrls(tech.xhr, xhrUrls, ZeroAcc).total,
           CheckMeta(tech.meta, pageData.meta, 1, ZeroAcc).total,
           CheckJs(tech.js, pageData.jsGlobals, 1, ZeroAcc).total,
           CheckHtml(tech.html, pageData.html, ZeroAcc).total,
           CheckHeaders(tech.headers, pageData.headers, 1, ZeroAcc).total,
           CheckCookies(tech.cookies, pageData.cookies, 1, ZeroAcc).total,
           CheckDom(tech.dom, pageData.domResults, 1, ZeroAcc).total >>

\* The sum of the contributions of the j-th technology.
ContributionSum(j) ==
    LET c == Contributions(j)
    IN  c[1] + c[2] + c[3] + c[4] + c[5] + c[6] + c[7] + c[8]

\* C20: during direct detection a technology the loop has passed is in the
\* result map iff the sum of the contributions of its signal categories is
\* greater than zero, and its confidence is then min(sum, 100); a technology
\* with a positive sum stays in the map with that confidence to the end of
\* the run.
C20_RecordedIffPositiveSum ==
    \A j \in DOMAIN technologies :
        LET name == technologies[j].name
            sum == ContributionSum(j)
        IN  /\ pc = "match" /\ j < idx => (Has(detected, name) <=> sum > 0)
            /\ pc \in {"match", "implies", "rank"} /\ j < idx /\ sum > 0
                  => Has(detected, name) /\ RecordOf(name).confidence = Min(sum, 100)

\* Direct detection has recorded at 100 a technology to which two signal
\* categories contribute, neither alone above 100, their sum above 100.
C20_Witness ==
    /\ pc = "match"
    /\ \E j \in 1..(idx - 1) :
          LET c == Contributions(j)
          IN  /\ Cardinality({k \in 1..8 : c[k] > 0}) >= 2
              /\ \A k \in 1..8 : c[k] <= 100
              /\ ContributionSum(j) > 100
              /\ RecordOf(technologies[j].name).confidence = 100

\* The alternative compiles and its regex matches the value.
Matches(raw, value) ==
    LET parsed == parsePattern(raw)
    IN  parsed.ok /\ RegexMatch(parsed.regex, value).matched

\* The position of the first alternative of the list that matches the value,
\* 0 if none does.
FirstMatch(list, value) ==
    LET hits == {i \in DOMAIN list : Matches(list[i], value)}
    IN  IF hits = {} \/ ~Truthy(value) THEN 0
        ELSE CHOOSE i \in hits : \A h \in hits : i <= h

\* The URLs whose first matching alternative is the p-th of the list.
MatchedBy(list, urls, p) == {i \in DOMAIN urls : FirstMatch(list, urls[i]) = p}

\* For the alternatives p.. of the list: weight times number of URLs matched.
RECURSIVE WeightedCount(_, _, _)
WeightedCount(list, urls, p) ==
    IF p > Len(list) THEN 0
    ELSE parsePattern(list[p]).confidence * Cardinality(MatchedBy(list, urls, p))
         + WeightedCount(list, urls, p + 1)

UrlSum(sig, urls) == IF SigTruthy(sig) THEN WeightedCount(ToList(sig), urls, 1) ELSE 0

\* C21: the contribution of a scriptSrc or xhr rule is, summed over its
\* alternatives, the weight of the alternative times the number of URLs of
\* the list it matched: N matching URLs add N times the weight.  A technology
\* found by its URLs only is recorded with that sum, capped at 100.
C21_EveryMatchingUrlCounts ==
    \A j \in DOMAIN technologies :
        LET rule == technologies[j].rule
            name == technologies[j].name
            s == UrlSum(rule.scriptSrc, scriptUrls)
            x == UrlSum(rule.xhr, xhrUrls)
            c == Contributions(j)
        IN  /\ c[1] = s
            /\ c[2] = x
            /\ pc = "match" /\ j < idx /\ s + x > 0 /\ ContributionSum(j) = c[1] + c[2]
                  => Has(detected, name) /\ RecordOf(name).confidence = Min(s + x, 100)

\* Two script URLs matched the same alternative and the technology is
\* recorded with twice its weight, below the cap.
C21_Witness ==
    /\ pc = "match"
    /\ \E j \in 1..(idx - 1) :
          LET list == ToList(technologies[j].rule.scriptSrc)
          IN  \E p \in DOMAIN list :
                /\ Cardinality(MatchedBy(list, scriptUrls, p)) = 2
                /\ Has(detected, technologies[j].name)
                /\ RecordOf(technologies[j].name).confidence = 2 * parsePattern(list[p]).confidence
                /\ RecordOf(technologies[j].name).confidence < 100

\* The version the p-th alternative yields on the value.
VersionBy(list, p, value) ==
    LET parsed == parsePattern(list[p])
    IN  extractVersion(RegexMatch(parsed.regex, value).groups, parsed.versionGroup)

\* C22: the html alternatives are tried in list order and the first that
\* matches gives the contribution and the version, whatever the later
\* alternatives would match; a technology the loop has passed is recorded
\* with that weight plus the other categories' contributions, and with that
\* version when no other signal yields one.
C22_FirstAlternativeWins ==
    \A j \in DOMAIN technologies :
        LET rule == technologies[j].rule
            name == technologies[j].name
            list == ToList(rule.html)
            first == FirstMatch(list, pageData.html)
            r == CheckHtml(rule.html, pageData.html, ZeroAcc)
            c == Contributions(j)
        IN  SigTruthy(rule.html) =>
              /\ first = 0 => r = ZeroAcc
              /\ first # 0 =>
                    /\ r.total = parsePattern(list[first]).confidence
                    /\ r.version = VersionBy(list, first, pageData.html)
                    /\ pc = "match" /\ j < idx /\ ContributionSum(j) > 0 =>
                          /\ RecordOf(name).confidence
                                = Min(r.total + ContributionSum(j) - c[5], 100)
                          /\ Direct(j).versions = r.versions
                                => RecordOf(name).version = VersionBy(list, first, pageData.html)

\* Two alternatives match the page's html; the first has weight 40 and no
\* version, a later one would yield a version: the html contribution is 40
\* and the record has no version.
C22_Witness ==
    /\ pc = "match"
    /\ \E j \in 1..(idx - 1) :
          LET list == ToList(technologies[j].rule.html)
              first == FirstMatch(list, pageData.html)
          IN  /\ first # 0
              /\ \E later \in DOMAIN list :
                    /\ later > first
                    /\ Matches(list[later], pageData.html)
                    /\ Truthy(VersionBy(list, later, pageData.html))
              /\ ~Truthy(VersionBy(list, first, pageData.html))
              /\ Contributions(j)[5] = parsePattern(list[first]).confidence
              /\ Has(detected, technologies[j].name)
              /\ RecordOf(technologies[j].name).version = Null

\* The weight of the first alternative of the field that matches the value.
WeightOn(sig, value) ==
    LET first == FirstMatch(ToList(sig), value)
    IN  IF SigTruthy(sig) /\ first # 0 THEN parsePattern(ToList(sig)[first]).confidence ELSE 0

\* The weights of the attribute sub-patterns i.. that match.
RECURSIVE AttributeSum(_, _, _)
AttributeSum(entries, attributes, i) ==
    IF i > Len(entries) THEN 0
    ELSE WeightOn(entries[i].p, Lookup(attributes, entries[i].k))
         + AttributeSum(entries, attributes, i + 1)

\* What one selector of a dom rule is worth on the page.
SelectorWeight(entry, domResults) ==
    LET checks == entry.checks
        noKeys == ~checks.exists /\ checks.text = NoSig /\ ~checks.hasAttributes
    IN  IF entry.sel \notin DOMAIN domResults THEN 0
        ELSE IF ~domResults[entry.sel].exists THEN 0
        ELSE IF noKeys \/ checks.exists THEN 100
        ELSE WeightOn(checks.text, domResults[entry.sel].text)
             + (IF checks.hasAttributes
                THEN AttributeSum(checks.attributes, domResults[entry.sel].attributes, 1)
                ELSE 0)

RECURSIVE DomSum(_, _, _)
DomSum(entries, domResults, i) ==
    IF i > Len(entries) THEN 0
    ELSE SelectorWeight(entries[i], domResults) + DomSum(entries, domResults, i + 1)

\* C23: the contribution of a dom rule is the sum over its selectors of:
\* nothing when the page has no such element; 100 when the check set is
\* empty or carries the existence marker; otherwise the weight of the text
\* sub-pattern if it matches plus the weight of each attribute sub-pattern
\* that matches.  A technology the loop has passed is recorded with that
\* contribution added to those of the other categories, capped at 100.
C23_DomContribution ==
    \A j \in DOMAIN technologies :
        LET rule == technologies[j].rule
            name == technologies[j].name
            c == Contributions(j)
            dom == DomSum(rule.dom, pageData.domResults, 1)
        IN  ~EvaluateThrows(rule, pageData) =>
              /\ c[8] = dom
              /\ pc = "match" /\ j < idx =>
                    /\ Has(detected, name) <=> ContributionSum(j) - c[8] + dom > 0
                    /\ Has(detected, name) =>
                          RecordOf(name).confidence = Min(ContributionSum(j) - c[8] + dom, 100)

\* The text sub-pattern and an attribute sub-pattern of one selector both
\* matched and the technology, found by its dom rule only, is recorded with
\* the sum of the two weights.
C23_Witness ==
    /\ pc = "match"
    /\ \E j \in 1..(idx - 1) :
          LET rule == technologies[j].rule
          IN  /\ \E e \in DOMAIN rule.dom :
                    /\ DomExists(pageData.domResults, rule.dom[e].sel)
                    /\ WeightOn(rule.dom[e].checks.text,
                                pageData.domResults[rule.dom[e].sel].text) > 0
                    /\ AttributeSum(rule.dom[e].checks.attributes,
                                    pageData.domResults[rule.dom[e].sel].attributes, 1) > 0
              /\ ContributionSum(j) = Contributions(j)[8]
              /\ Has(detected, technologies[j].name)
              /\ RecordOf(technologies[j].name).confidence
                    = DomSum(rule.dom, pageData.domResults, 1)

\* A selector with the existence marker and a text sub-pattern of weight 30
\* that matches is worth 100, and a selector the page does not have
\* nothing: the technology is recorded at 100.
C23_MarkerReached ==
    /\ pc = "match"
    /\ \E j \in 1..(idx - 1) :
          LET rule == technologies[j].rule
          IN  /\ \E e \in DOMAIN rule.dom :
                    /\ DomExists(pageData.domResults, rule.dom[e].sel)
                    /\ rule.dom[e].checks.exists
                    /\ WeightOn(rule.dom[e].checks.text,
                                pageData.domResults[rule.dom[e].sel].text) = 30
              /\ \E e \in DOMAIN rule.dom : ~DomExists(pageData.domResults, rule.dom[e].sel)
              /\ RecordOf(technologies[j].name).confidence = 100

\* The names and confidences of a list of detection records.
NameConfidences(list) == {<<d.name, d.confidence>> : d \in Range(list)}

\* The store with its entries in another order.
Reordered(store, perm) == [i \in DOMAIN store |-> store[perm[i]]]

\* C24: what a run returns does not depend on the order of the store: the
\* run on the same rules in any other order, with the same signals, returns
\* the same names with the same confidences.
C24_StoreOrderIrrelevant ==
    Returned =>
        \A perm \in Permutations(DOMAIN technologies) :
            NameConfidences(detectTechnologies(Reordered(technologies, perm), categories, page,
                                               collector, scriptUrls, xhrUrls,
                                               failAt).detectedTechnologies)
              = NameConfidences(Output)

\* C25: after the implies loop, for every technology of the result map and
\* every store technology it implies with confidence c, the implied
\* technology is in the map with a confidence of at least min(c, 100).
C25_ImpliedAtLeast ==
    pc \in {"rank", "returned"} =>
        \A a \in Range(detected) :
            \A e \in Range(StoreGet(technologies, a.name).implies) :
                e.isString /\ StoreIndex(technologies, e.name) # 0 =>
                    /\ Has(detected, e.name)
                    /\ RecordOf(e.name).confidence >= Min(impliedConfidence(e), 100)

\* The record a implies the name with a token in its implies list.
ImpliesName(a, name) ==
    \E e \in Range(StoreGet(technologies, a.name).implies) : e.isString /\ e.name = name

\* The record of the output matched no signal of its own.
NoOwnSignal(d) == d.name \notin DirectNames

\* C26 as stated: a technology of the output that matched no signal of its
\* own is implied by a technology of the output.
C26_ImplierInOutput ==
    pc = "returned" =>
        \A d \in Range(Output) :
            NoOwnSignal(d) => \E a \in Range(Output) : ImpliesName(a, d.name)

\* C26 as amended: a technology of the output that matched no signal of its
\* own is implied by a technology that entered the result map before it, at
\* whatever confidence, also below the floor; its confidence is the implied
\* confidence of such a technology's token, capped at 100, and at least 50.
C26_ImplierInResultMap ==
    pc = "returned" =>
        \A d \in Range(Output) :
            NoOwnSignal(d) =>
                /\ d.confidence >= Floor
                /\ \E a \in Range(detected) :
                      /\ IndexOf(detected, a.name) < IndexOf(detected, d.name)
                      /\ \E e \in Range(StoreGet(technologies, a.name).implies) :
                            /\ e.isString
                            /\ e.name = d.name
                            /\ d.confidence = Min(impliedConfidence(e), 100)

\* The output holds a technology without a signal of its own, and every
\* technology of the result map that implies it is below the floor and not
\* in the output.
C26_Witness ==
    /\ pc = "returned"
    /\ \E d \in Range(Output) :
          /\ NoOwnSignal(d)
          /\ StoreIndex(technologies, d.name) # 0
          /\ \E a \in Range(detected) : ImpliesName(a, d.name)
          /\ \A a \in Range(detected) :
                ImpliesName(a, d.name) => a.confidence < Floor /\ a.name \notin Names(Output)

\* C27: in every result of detectTechnologies, of the return statement and
\* of the catch block, cms is null exactly when cmsDetails is null; when
\* they are not, cmsDetails is one of the records of detectedTechnologies
\* and cms is its name.  (Technology names are non-empty strings.)
C27_CmsAgreesWithDetails ==
    Returned =>
        /\ result.cms # Null <=> result.cmsDetails # <<>>
        /\ Len(result.cmsDetails) <= 1
        /\ result.cmsDetails # <<>> =>
              /\ result.cmsDetails[1] \in Range(Output)
              /\ result.cmsDetails[1].name = result.cms

\* A result with a CMS, while the result map also holds a record of the CMS
\* category that is below the floor and not in the output.
C27_Witness ==
    /\ pc = "returned"
    /\ result.cms # Null
    /\ result.cmsDetails # <<>>
    /\ result.cmsDetails[1].name = result.cms
    /\ \E d \in Range(detected) : IsCms(d) /\ ~PassesFloor(d) /\ d \notin Range(Output)

\* A result without a CMS whose result map holds a record of the CMS
\* category below the floor.
C27_NoCmsReached ==
    /\ pc = "returned"
    /\ result.cms = Null
    /\ Output # <<>>
    /\ \E d \in Range(detected) : IsCms(d) /\ ~PassesFloor(d)

\* The value of the first header of the response whose lower-cased name is k.
FirstValue(resp, k) ==
    LET hits == {i \in DOMAIN resp.headers : ToLower(resp.headers[i].name) = k}
    IN  resp.headers[CHOOSE i \in hits : \A h \in hits : i <= h].value

HeaderNames(resp) == {ToLower(resp.headers[i].name) : i \in DOMAIN resp.headers}

\* C28: the names of the collector's Map are lower-cased; a response that is
\* no document leaves the Map as it is; a document response adds each of its
\* header names the Map does not hold, with the first value it carries for
\* that name, and no response changes or removes a recorded value; the
\* headers collectPageData has copied are still those of the Map.
C28_FirstWriteWins ==
    /\ [](\A k \in DOMAIN collector.responseHeaders : ToLower(k) = k)
    /\ [](pc = "headers" =>
            \A k \in DOMAIN pageData.headers :
                /\ k \in DOMAIN collector.responseHeaders
                /\ collector.responseHeaders[k] = pageData.headers[k])
    /\ [][LET old == collector.responseHeaders
              new == collector'.responseHeaders
          IN  /\ \A k \in DOMAIN old : k \in DOMAIN new /\ new[k] = old[k]
              /\ response'.resourceType # "document" => new = old
              /\ response'.resourceType = "document" =>
                    DOMAIN new = DOMAIN old \cup HeaderNames(response')
              /\ \A k \in DOMAIN new \ DOMAIN old : new[k] = FirstValue(response', k)]_vars

\* A document response has brought another value for a header name the Map
\* held, after collectPageData copied the headers: the Map and the copy
\* have the first value.
C28_Witness ==
    /\ pc = "headers"
    /\ response.resourceType = "document"
    /\ \E i \in DOMAIN response.headers :
          LET k == ToLower(response.headers[i].name)
          IN  /\ k # response.headers[i].name
              /\ k \in DOMAIN pageData.headers
              /\ collector.responseHeaders[k] # response.headers[i].value
              /\ collector.responseHeaders[k] = pageData.headers[k]

\* The fetch gave the page: an OK response whose body was read.
GavePage(o) == o.kind = "response" /\ Ok(o.status) /\ o.bodyOk

\* The fetch said the company does not exist.
NotFound(o) == o.kind = "response" /\ o.status = 404

\* The fetch gave an OK response, whether its body can be read or not.
OkResponse(o) == o.kind = "response" /\ Ok(o.status)

\* C30 as stated: fetchLinkedInPage makes at most MAX_RETRIES = 5 fetch
\* attempts and never throws; a 404 ends it at once with null, the first OK
\* response ends it with the page text, and any other outcome leads to
\* another attempt until the fifth failure, after which it returns null.
C30_FirstOkResponseEnds ==
    /\ [](fetch.attempt <= MAX_RETRIES /\ ~fetch.threw)
    /\ [](\A i \in DOMAIN fetch.log :
            NotFound(fetch.log[i]) \/ OkResponse(fetch.log[i]) =>
                /\ i = Len(fetch.log)
                /\ fetch.phase = "returned"
                /\ fetch.value = (IF NotFound(fetch.log[i]) THEN Null ELSE PageText))
    /\ [](fetch.phase = "returned" =>
            LET last == fetch.log[Len(fetch.log)]
            IN  ~NotFound(last) /\ ~OkResponse(last) =>
                    fetch.value = Null /\ fetch.attempt = MAX_RETRIES)

\* C30 as amended: fetchLinkedInPage makes at most MAX_RETRIES = 5 fetch
\* attempts and every step of it is one more attempt, so it ends; it never
\* throws; every attempt before the last one made failed (403, 429, 5xx,
\* another status that is not OK, a timeout, another error, or an OK
\* response whose body could not be read); it has returned exactly when the
\* last attempt gave a 404 (null), gave an OK response whose body was read
\* (its text), or was the fifth failure (null).
C30_FetchTerminates ==
    /\ [](/\ fetch.attempt <= MAX_RETRIES
          /\ fetch.attempt <= 5
          /\ Len(fetch.log) = fetch.attempt
          /\ ~fetch.threw
          /\ \A i \in 1..(Len(fetch.log) - 1) :
                ~GavePage(fetch.log[i]) /\ ~NotFound(fetch.log[i]))
    /\ [](fetch.phase = "loop" =>
            /\ fetch.attempt < MAX_RETRIES
            /\ \A i \in DOMAIN fetch.log : ~GavePage(fetch.log[i]) /\ ~NotFound(fetch.log[i]))
    /\ [](fetch.phase = "returned" =>
            LET last == fetch.log[Len(fetch.log)]
            IN  /\ fetch.attempt >= 1
                /\ NotFound(last) => fetch.value = Null
                /\ GavePage(last) => fetch.value = PageText
                /\ ~NotFound(last) /\ ~GavePage(last) =>
                      fetch.value = Null /\ fetch.attempt = MAX_RETRIES)
    /\ [][fetch.phase = "loop" /\ fetch'.attempt = fetch.attempt + 1]_vars

\* Five attempts failed, among them a 403, a 5xx, a timeout and an OK
\* response whose body could not be read, and the function returned null.
C30_Witness ==
    /\ fetch.phase = "returned"
    /\ fetch.attempt = 5
    /\ fetch.value = Null
    /\ \E i, j, k, m \in DOMAIN fetch.log :
          /\ fetch.log[i].kind = "response" /\ fetch.log[i].status = 403
          /\ fetch.log[j].kind = "response" /\ fetch.log[j].status = 500
          /\ fetch.log[k].kind = "abort"
          /\ OkResponse(fetch.log[m]) /\ ~fetch.log[m].bodyOk
    /\ \A i \in DOMAIN fetch.log : ~NotFound(fetch.log[i])

\* A 404 on the third attempt ended the function with null.
C30_NotFoundReached ==
    /\ fetch.phase = "returned"
    /\ fetch.attempt = 3
    /\ NotFound(fetch.log[3])
    /\ fetch.value = Null

\* The page came on the fifth attempt, after a body that could not be read.
C30_PageReached ==
    /\ fetch.phase = "returned"
    /\ fetch.attempt = 5
    /\ GavePage(fetch.log[5])
    /\ fetch.value = PageText
    /\ \E i \in 1..4 : fetch.log[i].kind = "response" /\ Ok(fetch.log[i].status)

\* The handler has nothing left to do for the request.
Over == analyze.phase \in {"rejected", "closed"}

\* The phases before the loop over the pages, counted from the loop.
PhaseRank(phase) ==
    CASE phase = "received" -> 7
      [] phase = "sitemap" -> 6
      [] phase = "launch" -> 5
      [] phase = "context" -> 4
      [] phase = "start" -> 3
      [] phase = "discover" -> 2
      [] phase = "homepage" -> 1
      [] OTHER -> 0

\* A bound on the steps the handler has left: to respond, to send the error
\* response, to close, and before that one step for each page left to visit
\* and for each phase before the loop.
StepsLeft(a) ==
    CASE a.phase \in {"rejected", "closed"} -> 0
      [] a.phase \in {"done", "caught"} -> 1
      [] a.phase = "failed" -> 2
      [] a.phase = "visit" -> 3 + Len(a.pagesToVisit) + 1 - a.next
      [] OTHER -> 3 + MaxCandidates + PhaseRank(a.phase)

\* C29: a request never gets more than one response and has got exactly one
\* when the handler is over; the handler always has a step to take until it
\* is over and every step lowers the bound on the steps left, so it comes
\* to be over.  A request without url is answered 400 and no browser is
\* launched for it; otherwise closeBrowser runs once, after the response,
\* and leaves neither the browser nor the context open, whether the browser
\* was launched or not and whether the request ended with 200 or in the
\* catch block.
C29_OneResponseAndClose ==
    /\ [](analyze.responses <= 1)
    /\ [](Over => analyze.responses = 1)
    /\ [](~analyze.hasUrl => analyze.browser = "none" /\ analyze.closeCalls = 0)
    /\ [](analyze.phase = "rejected" => ~analyze.hasUrl /\ analyze.statusCode = 400)
    /\ [](analyze.phase = "closed" =>
            /\ analyze.hasUrl
            /\ analyze.closeCalls = 1
            /\ analyze.browser # "open"
            /\ analyze.context # "open"
            /\ analyze.statusCode \in {200, 500, 503, 504})
    /\ [](analyze.browser = "open" => ~Over)
    /\ [][analyze'.closeCalls > analyze.closeCalls => analyze.responses = 1]_vars
    /\ [](StepsLeft(analyze) >= 0)
    /\ [](~Over => ENABLED NextAnalyze)
    /\ [][StepsLeft(analyze') < StepsLeft(analyze)]_vars

\* The browser was launched, the creation of the context failed, the error
\* response was sent and closeBrowser closed the browser.
C29_Witness ==
    /\ analyze.phase = "closed"
    /\ analyze.browser = "closed"
    /\ analyze.context = "none"
    /\ analyze.responses = 1
    /\ analyze.statusCode = 503

\* The request ended with 200 after visiting pages; browser and context are
\* closed.
C29_SuccessReached ==
    /\ analyze.phase = "closed"
    /\ analyze.statusCode = 200
    /\ analyze.navigations > 1
    /\ analyze.browser = "closed"
    /\ analyze.context = "closed"

\* The homepage did not load: 500, browser and context closed.
C29_HomepageFailureReached ==
    /\ analyze.phase = "closed"
    /\ analyze.error = "Failed to load homepage"
    /\ analyze.statusCode = 500
    /\ analyze.browser = "closed"
    /\ analyze.context = "closed"

\* A request without url was answered 400.
C29_RejectedReached ==
    /\ analyze.phase = "rejected"
    /\ analyze.responses = 1
    /\ analyze.browser = "none"

====
